---------------------------- MODULE Spec2Model ----------------------------
(***************************************************************************)
(* koru-delta python bindings: the document chunker                        *)
(* (koru_delta/integrations/chunking.py) and the hybrid vector/causal      *)
(* ranker (koru_delta/integrations/hybrid.py).                             *)
(*                                                                         *)
(* A text is a sequence of one-character strings.  A separator is a text;  *)
(* the empty separator "" is the empty sequence.                           *)
(***************************************************************************)
EXTENDS Integers, Sequences, FiniteSets, TLC

VARIABLES
    text,       \* chunker: the document handed to chunk_document
    cfgArgs,    \* chunker: the arguments of ChunkingConfig(...), or NoConfig
    config,     \* chunker: the constructed ChunkingConfig, or NoConfig
    chunks,     \* chunker: the list chunk_document returned
    cpc,        \* chunker: "start" | "configured" | "config_error" |
                \*   "chunking" | "chunked"
    stack,      \* chunker: the call stack of a chunk_document that is
                \*   followed step by step, the running call last
    store,      \* ranker: the store collaborator behind HybridSearcher.db
    spc,        \* ranker: where the search call stands:
                \*   "idle" | "similar" | "get" | "history" | "done" | "error"
    request,    \* ranker: the arguments of the search call
    vector_results,         \* ranker: what db.similar returned
    idx,                    \* ranker: position of the loop over vector_results
    content,                \* ranker: what db.get returned for the candidate
    results_with_metadata,  \* ranker: the list built by step 2
    result,     \* ranker: the list the call returned
    error,      \* ranker: the exception the call raised, "none" if none
    calls,      \* ranker: the store calls issued so far, in order
    caller,     \* ranker: the method that called search, with its arguments;
                \*   NoCaller when search is called directly
    wpc,        \* ranker: where that method stands:
                \*   "idle" | "search" | "get_at" | "done" | "error"
    ridx,       \* ranker: position of time_travel_search's loop over results
    time_travel_results,    \* ranker: the list time_travel_search builds
    returned,   \* ranker: the list the calling method returned
    other       \* ranker: the local variables of a second call on the same
                \*   searcher, while the call above is the one running

cvars == <<text, cfgArgs, config, chunks, cpc, stack>>

wvars == <<caller, wpc, ridx, time_travel_results, returned>>

svars == <<store, spc, request, vector_results, idx, content,
           results_with_metadata, result, error, calls, wvars, other>>

vars == <<text, cfgArgs, config, chunks, cpc, stack, store, spc, request, vector_results,
          idx, content, results_with_metadata, result, error, calls,
          caller, wpc, ridx, time_travel_results, returned, other>>

(***************************************************************************)
(* Bounds of the model.                                                    *)
(***************************************************************************)
MaxLen == 4
MaxSize == 3
MaxTopK == 2

(***************************************************************************)
(* Characters and strings.                                                 *)
(***************************************************************************)
NL == "\n"

\* The characters str.strip() removes that occur in the modelled texts.
Whitespace == {" ", "\n", "\t"}

Alphabet == {"a", ".", " ", NL}

\* config=None: no ChunkingConfig was passed
NoConfig == [none |-> TRUE]

Min(a, b) == IF a <= b THEN a ELSE b

RECURSIVE LStrip(_)
LStrip(s) ==
    IF s # <<>> /\ Head(s) \in Whitespace THEN LStrip(Tail(s)) ELSE s

RECURSIVE RStrip(_)
RStrip(s) ==
    IF s # <<>> /\ s[Len(s)] \in Whitespace
    THEN RStrip(SubSeq(s, 1, Len(s) - 1))
    ELSE s

\* str.strip()
Strip(s) == RStrip(LStrip(s))

\* "".join(parts)
RECURSIVE Join(_)
Join(parts) ==
    IF parts = <<>> THEN <<>> ELSE Head(parts) \o Join(Tail(parts))

\* sum(len(s) for s in parts)
RECURSIVE SumLen(_)
SumLen(parts) ==
    IF parts = <<>> THEN 0 ELSE Len(Head(parts)) + SumLen(Tail(parts))

\* text[start:end] for 0 <= start <= end (Python slice, zero based, clamped)
Slice(s, start, end) == SubSeq(s, start + 1, Min(end, Len(s)))

\* s[-n:] for n > 0
Suffix(s, n) == IF n >= Len(s) THEN s ELSE SubSeq(s, Len(s) - n + 1, Len(s))

Prefix(s, n) == SubSeq(s, 1, Min(n, Len(s)))

(***************************************************************************)
(* ChunkingConfig                                                          *)
(***************************************************************************)
DefaultChunkSize == 1000
DefaultChunkOverlap == 100

DefaultSeparators ==
    << <<NL, NL>>, <<NL>>, <<".", " ">>, <<"!", " ">>, <<"?", " ">>, <<" ">>, <<>> >>

SentenceSeparators == { <<".", " ">>, <<"!", " ">>, <<"?", " ">> }

\* ChunkingConfig() with every field at its default
\* (a record of constructor arguments has no separators field when the
\* argument is left at its default, None)
DefaultArgs ==
    [chunk_size |-> DefaultChunkSize, chunk_overlap |-> DefaultChunkOverlap,
     keep_separator |-> TRUE, strip_whitespace |-> TRUE]

\* __post_init__: the value of the separators field after construction
PostInitSeparators(args) ==
    IF "separators" \in DOMAIN args THEN args.separators ELSE DefaultSeparators

\* A __post_init__ that accepts chunk_overlap = chunk_size
PostInitError_OverlapEqual(args) ==
    IF args.chunk_size <= 0 THEN "chunk_size must be positive"
    ELSE IF args.chunk_overlap < 0 THEN "chunk_overlap must be non-negative"
    ELSE IF args.chunk_overlap > args.chunk_size
         THEN "chunk_overlap must be less than chunk_size"
    ELSE "ok"

\* __post_init__: "ok", or the ValueError it raises (the checks run in order)
PostInitError(args) ==
    IF args.chunk_size <= 0 THEN "chunk_size must be positive"
    ELSE IF args.chunk_overlap < 0 THEN "chunk_overlap must be non-negative"
    ELSE IF args.chunk_overlap >= args.chunk_size
         THEN "chunk_overlap must be less than chunk_size"
    ELSE "ok"

\* The dataclass after a successful construction
Constructed(args) ==
    [chunk_size |-> args.chunk_size, chunk_overlap |-> args.chunk_overlap,
     separators |-> PostInitSeparators(args),
     keep_separator |-> args.keep_separator,
     strip_whitespace |-> args.strip_whitespace]

(***************************************************************************)
(* RecursiveCharacterTextSplitter                                          *)
(***************************************************************************)
\* RecursiveCharacterTextSplitter.__init__: config.separators or [defaults]
\* (an empty list is falsy, so it is replaced by the defaults too)
SplitterSeparators(cfg) ==
    IF cfg.separators = <<>> THEN DefaultSeparators ELSE cfg.separators

\* Index of the first occurrence of sep in s, 0 when there is none
FindFirst(s, sep) ==
    LET hits == {i \in 1..(Len(s) - Len(sep) + 1) : SubSeq(s, i, i + Len(sep) - 1) = sep}
    IN  IF hits = {} THEN 0 ELSE CHOOSE i \in hits : \A j \in hits : i <= j

\* text.split(separator), separator non-empty: non-overlapping, left to right
RECURSIVE StrSplit(_, _)
StrSplit(s, sep) ==
    LET i == FindFirst(s, sep)
    IN  IF i = 0 THEN <<s>>
        ELSE <<SubSeq(s, 1, i - 1)>> \o StrSplit(SubSeq(s, i + Len(sep), Len(s)), sep)

\* re.split("(?<=P) ", text): split at (and drop) every space that follows the
\* punctuation character P; the punctuation stays with the piece before it
RECURSIVE RegexSplit(_, _)
RegexSplit(s, punct) ==
    LET hits == {i \in 2..Len(s) : s[i] = " " /\ s[i - 1] = punct}
        i == CHOOSE k \in hits : \A j \in hits : k <= j
    IN  IF hits = {} THEN <<s>>
        ELSE <<SubSeq(s, 1, i - 1)>> \o RegexSplit(SubSeq(s, i + 1, Len(s)), punct)

\* [s for s in splits if s]
RECURSIVE NonEmpty(_)
NonEmpty(splits) ==
    IF splits = <<>> THEN <<>>
    ELSE IF Head(splits) = <<>> THEN NonEmpty(Tail(splits))
    ELSE <<Head(splits)>> \o NonEmpty(Tail(splits))

\* _split_with_separator
SplitWithSeparator(s, separator, cfg) ==
    IF separator = <<>> THEN [i \in 1..Len(s) |-> <<s[i]>>]
    ELSE
      LET splits == IF separator \in SentenceSeparators
                    THEN RegexSplit(s, separator[1])
                    ELSE StrSplit(s, separator)
          back == IF separator \in SentenceSeparators THEN <<" ">> ELSE separator
      IN  IF cfg.keep_separator
          THEN [i \in 1..Len(splits) |->
                   IF i < Len(splits) THEN splits[i] \o back ELSE splits[i]]
          ELSE NonEmpty(splits)

\* _character_split: the while loop from position start (zero based)
RECURSIVE CharacterSplitFrom(_, _, _)
CharacterSplitFrom(s, cfg, start) ==
    IF start >= Len(s) THEN <<>>
    ELSE
      LET end == start + cfg.chunk_size
          raw == Slice(s, start, end)
          chunk == IF cfg.strip_whitespace THEN Strip(raw) ELSE raw
          rest == CharacterSplitFrom(s, cfg, start + cfg.chunk_size - cfg.chunk_overlap)
      IN  IF chunk # <<>> THEN <<chunk>> \o rest ELSE rest

\* A _character_split whose window advances by chunk_size, without overlap
CharacterSplit_NoOverlap(s, cfg) ==
    CharacterSplitFrom(s, [cfg EXCEPT !.chunk_overlap = 0], 0)

CharacterSplit(s, cfg) == CharacterSplitFrom(s, cfg, 0)

\* _get_overlap_chunk: the reversed loop at index i (1 based) with the
\* overlap collected so far
RECURSIVE OverlapLoop(_, _, _, _, _)
OverlapLoop(parts, cfg, i, overlap_size, overlap_chunks) ==
    IF i = 0 THEN overlap_chunks
    ELSE IF overlap_size + Len(parts[i]) <= cfg.chunk_overlap
    THEN OverlapLoop(parts, cfg, i - 1, overlap_size + Len(parts[i]),
                     <<parts[i]>> \o overlap_chunks)
    ELSE LET remaining == cfg.chunk_overlap - overlap_size
         IN  IF remaining > 0
             THEN <<Suffix(parts[i], remaining)>> \o overlap_chunks
             ELSE overlap_chunks

\* An overlap that carries the whole flushed buffer over
GetOverlapChunk_Whole(parts, cfg) == parts

GetOverlapChunk(parts, cfg) == OverlapLoop(parts, cfg, Len(parts), 0, <<>>)

\* A flush that never strips
Flushed_Unstripped(current_chunk, cfg) ==
    LET chunk_text == Join(current_chunk)
    IN  IF chunk_text # <<>> THEN <<chunk_text>> ELSE <<>>

\* The text a buffer is flushed as: joined, stripped when configured; <<>> when
\* nothing is left to append
Flushed(current_chunk, cfg) ==
    LET chunk_text == Join(current_chunk)
        cleaned == IF cfg.strip_whitespace THEN Strip(chunk_text) ELSE chunk_text
    IN  IF cleaned # <<>> THEN <<cleaned>> ELSE <<>>

\* A _merge_splits that returns without flushing the last buffer
FinalFlush_Dropped(out, current_chunk, cfg) == out

\* _merge_splits after its loop: "Don't forget the last chunk"
FinalFlush(out, current_chunk, cfg) ==
    IF current_chunk # <<>> THEN out \o Flushed(current_chunk, cfg) ELSE out

\* _merge_splits: the for loop at index i with the chunks emitted so far and
\* the working buffer, then the final flush
RECURSIVE MergeLoop(_, _, _, _, _, _)
MergeLoop(splits, cfg, i, out, current_chunk, current_length) ==
    IF i > Len(splits)
    THEN FinalFlush(out, current_chunk, cfg)
    ELSE
      LET split == splits[i]
          split_len == Len(split)
          flush == current_length + split_len > cfg.chunk_size /\ current_chunk # <<>>
          out1 == IF flush THEN out \o Flushed(current_chunk, cfg) ELSE out
          cur1 == IF flush THEN GetOverlapChunk(current_chunk, cfg) ELSE current_chunk
          len1 == IF flush THEN SumLen(cur1) ELSE current_length
      IN  MergeLoop(splits, cfg, i + 1, out1, Append(cur1, split), len1 + split_len)

MergeSplits(splits, separator, cfg) ==
    IF splits = <<>> THEN <<>> ELSE MergeLoop(splits, cfg, 1, <<>>, <<>>, 0)

\* A base case that takes only texts strictly shorter than chunk_size
FitsChunk_Strict(s, cfg) == Len(s) < cfg.chunk_size

\* The base case of _split_text_recursive: the text fits in chunk_size
FitsChunk(s, cfg) == Len(s) <= cfg.chunk_size

\* _split_text_recursive.  The for loop over the separators returns in its
\* first iteration, so only separators[0] is tried at each level.
RECURSIVE SplitTextRecursive(_, _, _)
RECURSIVE GoodSplits(_, _, _, _)
GoodSplits(splits, remaining_separators, cfg, i) ==
    IF i > Len(splits) THEN <<>>
    ELSE
      LET split == splits[i]
          here == IF Len(split) <= cfg.chunk_size THEN <<split>>
                  ELSE IF remaining_separators # <<>>
                       THEN SplitTextRecursive(split, remaining_separators, cfg)
                       ELSE CharacterSplit(split, cfg)
      IN  here \o GoodSplits(splits, remaining_separators, cfg, i + 1)

SplitTextRecursive(s, separators, cfg) ==
    IF FitsChunk(s, cfg)
    THEN LET cleaned == IF cfg.strip_whitespace THEN Strip(s) ELSE s
         IN  IF cleaned # <<>> THEN <<cleaned>> ELSE <<>>
    ELSE IF separators = <<>> THEN CharacterSplit(s, cfg)
    ELSE LET separator == Head(separators)
         IN  IF separator = <<>> THEN CharacterSplit(s, cfg)
             ELSE MergeSplits(
                      GoodSplits(SplitWithSeparator(s, separator, cfg),
                                 Tail(separators), cfg, 1),
                      separator, cfg)

\* split_text
SplitText(s, cfg) == SplitTextRecursive(s, SplitterSeparators(cfg), cfg)

\* A chunk_document that returns the empty text as a chunk
chunk_document_EmptyChunk(s, cfg) ==
    LET c == IF cfg = NoConfig THEN Constructed(DefaultArgs) ELSE cfg
    IN  IF s = <<>> THEN <<s>> ELSE SplitText(s, c)

\* chunk_document(text, config); cfg = NoConfig stands for config=None
chunk_document(s, cfg) ==
    LET c == IF cfg = NoConfig THEN Constructed(DefaultArgs) ELSE cfg
    IN  IF s = <<>> THEN <<>> ELSE SplitText(s, c)

(***************************************************************************)
(* The chunker as a state machine: a configuration is constructed (or the  *)
(* caller passes none), then one document is chunked.                      *)
(***************************************************************************)
\* Every text of at most MaxLen characters over Alphabet
Texts == UNION {[1..n -> Alphabet] : n \in 0..MaxLen}

\* The scenario document "Paragraph one.\n\nParagraph two.\n\nParagraph three."
ParagraphText ==
    <<"P","a","r","a","g","r","a","p","h"," ","o","n","e",".", NL, NL,
      "P","a","r","a","g","r","a","p","h"," ","t","w","o",".", NL, NL,
      "P","a","r","a","g","r","a","p","h"," ","t","h","r","e","e",".">>

\* ChunkingConfig(chunk_size=20, chunk_overlap=5)
ParagraphArgs ==
    [chunk_size |-> 20, chunk_overlap |-> 5,
     keep_separator |-> TRUE, strip_whitespace |-> TRUE]

\* The separator lists a caller passes: the empty list, character splitting only, words then
\* characters, one custom separator with no fallback, and a custom separator
\* before the sentence separator.
SeparatorChoices ==
    { <<>>,
      << <<>> >>,
      << <<" ">>, <<>> >>,
      << <<"a">> >>,
      << <<NL>>, <<".", " ">> >> }

ConfigArgs ==
    [chunk_size : -1..MaxSize, chunk_overlap : -1..MaxSize,
     keep_separator : BOOLEAN, strip_whitespace : BOOLEAN]
    \cup
    [chunk_size : -1..MaxSize, chunk_overlap : -1..MaxSize,
     separators : SeparatorChoices,
     keep_separator : BOOLEAN, strip_whitespace : BOOLEAN]
    \cup {ParagraphArgs}

\* The documents chunked under a configuration
InputTexts(cfg) ==
    IF cfg # NoConfig /\ cfg.chunk_size = ParagraphArgs.chunk_size
    THEN Texts \cup {ParagraphText} ELSE Texts

ChunkInit ==
    /\ text = <<>>
    /\ cfgArgs = NoConfig
    /\ config = NoConfig
    /\ chunks = <<>>
    /\ cpc = "start"
    /\ stack = <<>>

\* ChunkingConfig(**args): __post_init__ raises or the config exists
ConstructConfig ==
    /\ cpc = "start"
    /\ \E args \in ConfigArgs :
         /\ cfgArgs' = args
         /\ IF PostInitError(args) = "ok"
            THEN config' = Constructed(args) /\ cpc' = "configured"
            ELSE config' = NoConfig /\ cpc' = "config_error"
    /\ UNCHANGED <<text, chunks, stack>>
    /\ UNCHANGED svars

\* chunk_document(text, config), config = None when none was constructed
ChunkDocument ==
    /\ cpc \in {"start", "configured"}
    /\ \E t \in InputTexts(config) :
         /\ text' = t
         /\ chunks' = chunk_document(t, config)
    /\ cpc' = "chunked"
    /\ UNCHANGED <<cfgArgs, config, stack>>
    /\ UNCHANGED svars

ChunkNext == ConstructConfig \/ ChunkDocument

(***************************************************************************)
(* chunk_document step by step: the call stack of _split_text_recursive,   *)
(* _split_with_separator, _character_split and _merge_splits, one action   *)
(* per loop iteration, call and return.                                    *)
(***************************************************************************)
\* config or ChunkingConfig()
ConfigOrDefault(cfg) == IF cfg = NoConfig THEN Constructed(DefaultArgs) ELSE cfg

\* The local variables of a call.  fn is "recursive" (_split_text_recursive,
\* out is good_splits), "split" (_split_with_separator, splits are the pieces
\* found and rest the text not yet scanned), "character" (_character_split,
\* out is chunks) or "merge" (_merge_splits, out is chunks).  pc is "entry",
\* "scan", "loop", "split" (waiting for the splits), "tail" (returning what
\* the call above returns) or "return" (out is the value returned).
CallFrame(fn, s, separators, splits) ==
    [fn |-> fn,
     pc |-> CASE fn = "recursive" -> "entry"
              [] fn = "split" -> "scan"
              [] OTHER -> "loop",
     text |-> s, separators |-> separators, splits |-> splits,
     i |-> 1, out |-> <<>>, start |-> 0, rest |-> s,
     current_chunk |-> <<>>, current_length |-> 0]

\* The running call and the stack with its locals replaced
Top == stack[Len(stack)]

WithTop(f) == [stack EXCEPT ![Len(stack)] = f]

\* A window that does not move when chunk_overlap = chunk_size - 1
WindowAdvance_LessOne(cfg) == cfg.chunk_size - cfg.chunk_overlap - 1

\* start += self.config.chunk_size - self.config.chunk_overlap
WindowAdvance(cfg) == cfg.chunk_size - cfg.chunk_overlap

\* remaining_separators = separators[i + 1:], where i is always 0
RemainingSeparators(separators) == Tail(separators)

\* Where str.split or re.split cuts next: the index of the first occurrence
\* of the separator (for a sentence separator, of the space after the
\* punctuation), 0 when there is none
FirstCut(s, separator) ==
    IF separator \in SentenceSeparators
    THEN LET hits == {k \in 2..Len(s) : s[k] = " " /\ s[k - 1] = separator[1]}
         IN  IF hits = {} THEN 0 ELSE CHOOSE k \in hits : \A j \in hits : k <= j
    ELSE FindFirst(s, separator)

\* The characters a cut consumes: the space, or the whole separator
CutLength(separator) ==
    IF separator \in SentenceSeparators THEN 1 ELSE Len(separator)

\* The documents chunked step by step: the empty text, texts of "a" and
\* spaces that begin with a word, and the scenario document under its
\* configuration
SteppedTexts(cfg) ==
    {<<>>}
    \cup {t \in UNION {[1..n -> {"a", " "}] : n \in 1..MaxLen} : t[1] = "a"}
    \cup (IF cfg # NoConfig /\ cfg.chunk_size = ParagraphArgs.chunk_size
          THEN {ParagraphText} ELSE {})

\* chunk_document is called: [] for the empty text, else split_text calls
\* _split_text_recursive(text, self._separators)
ChunkDocumentCalled ==
    /\ cpc \in {"start", "configured"}
    /\ \E t \in SteppedTexts(config) :
         /\ text' = t
         /\ IF t = <<>>
            THEN /\ stack' = <<>>
                 /\ chunks' = <<>>
                 /\ cpc' = "chunked"
            ELSE /\ stack' = <<CallFrame("recursive", t,
                                         SplitterSeparators(ConfigOrDefault(config)),
                                         <<>>)>>
                 /\ chunks' = chunks
                 /\ cpc' = "chunking"
    /\ UNCHANGED <<cfgArgs, config>>
    /\ UNCHANGED svars

\* _split_text_recursive from its entry: the base case, the character split
\* of the empty separator (or of an empty separator list), or the call of
\* _split_with_separator with separators[0]
SplitTextRecursiveEnters ==
    /\ cpc = "chunking"
    /\ Top.fn = "recursive" /\ Top.pc = "entry"
    /\ LET cfg == ConfigOrDefault(config)
           f == Top
       IN  IF FitsChunk(f.text, cfg)
           THEN LET cleaned == IF cfg.strip_whitespace THEN Strip(f.text) ELSE f.text
                IN  stack' = WithTop([f EXCEPT !.pc = "return",
                                               !.out = IF cleaned # <<>> THEN <<cleaned>>
                                                       ELSE <<>>])
           ELSE IF f.separators = <<>> \/ Head(f.separators) = <<>>
           THEN stack' = Append(WithTop([f EXCEPT !.pc = "tail"]),
                                CallFrame("character", f.text, <<>>, <<>>))
           ELSE stack' = Append(WithTop([f EXCEPT !.pc = "split"]),
                                CallFrame("split", f.text, <<Head(f.separators)>>, <<>>))
    /\ UNCHANGED <<text, cfgArgs, config, chunks, cpc>>
    /\ UNCHANGED svars

\* _split_with_separator: the split finds its next piece, or, at the end of
\* the text, the separator is added back to all but the last piece
\* (keep_separator) or the empty pieces are dropped
SplitWithSeparatorStep ==
    /\ cpc = "chunking"
    /\ Top.fn = "split" /\ Top.pc = "scan"
    /\ LET cfg == ConfigOrDefault(config)
           f == Top
           separator == Head(f.separators)
           k == FirstCut(f.rest, separator)
           back == IF separator \in SentenceSeparators THEN <<" ">> ELSE separator
           splits == Append(f.splits, f.rest)
       IN  IF k # 0
           THEN stack' = WithTop([f EXCEPT
                             !.splits = Append(f.splits, SubSeq(f.rest, 1, k - 1)),
                             !.rest = SubSeq(f.rest, k + CutLength(separator),
                                             Len(f.rest))])
           ELSE stack' = WithTop([f EXCEPT
                             !.pc = "return",
                             !.splits = splits,
                             !.rest = <<>>,
                             !.out = IF cfg.keep_separator
                                     THEN [j \in 1..Len(splits) |->
                                              IF j < Len(splits) THEN splits[j] \o back
                                              ELSE splits[j]]
                                     ELSE NonEmpty(splits)])
    /\ UNCHANGED <<text, cfgArgs, config, chunks, cpc>>
    /\ UNCHANGED svars

\* One iteration of "for split in splits", or the call of _merge_splits
\* after the last
SplitLoopStep ==
    /\ cpc = "chunking"
    /\ Top.fn = "recursive" /\ Top.pc = "loop"
    /\ LET cfg == ConfigOrDefault(config)
           f == Top
       IN  IF f.i > Len(f.splits)
           THEN stack' = Append(WithTop([f EXCEPT !.pc = "tail"]),
                                CallFrame("merge", <<>>, <<Head(f.separators)>>, f.out))
           ELSE LET split == f.splits[f.i]
                    remaining_separators == RemainingSeparators(f.separators)
                IN  IF Len(split) <= cfg.chunk_size
                    THEN stack' = WithTop([f EXCEPT !.out = Append(f.out, split),
                                                    !.i = f.i + 1])
                    ELSE IF remaining_separators # <<>>
                    THEN stack' = Append(stack, CallFrame("recursive", split,
                                                          remaining_separators, <<>>))
                    ELSE stack' = Append(stack, CallFrame("character", split,
                                                          <<>>, <<>>))
    /\ UNCHANGED <<text, cfgArgs, config, chunks, cpc>>
    /\ UNCHANGED svars

\* One iteration of the while loop of _character_split, or its exit
CharacterSplitStep ==
    /\ cpc = "chunking"
    /\ Top.fn = "character" /\ Top.pc = "loop"
    /\ LET cfg == ConfigOrDefault(config)
           f == Top
       IN  IF f.start < Len(f.text)
           THEN LET end == f.start + cfg.chunk_size
                    raw == Slice(f.text, f.start, end)
                    chunk == IF cfg.strip_whitespace THEN Strip(raw) ELSE raw
                IN  stack' = WithTop([f EXCEPT
                                 !.out = IF chunk # <<>> THEN Append(f.out, chunk)
                                         ELSE f.out,
                                 !.start = f.start + WindowAdvance(cfg)])
           ELSE stack' = WithTop([f EXCEPT !.pc = "return"])
    /\ UNCHANGED <<text, cfgArgs, config, chunks, cpc>>
    /\ UNCHANGED svars

\* One iteration of the for loop of _merge_splits, or the final flush
MergeSplitsStep ==
    /\ cpc = "chunking"
    /\ Top.fn = "merge" /\ Top.pc = "loop"
    /\ LET cfg == ConfigOrDefault(config)
           f == Top
       IN  IF f.i > Len(f.splits)
           THEN stack' = WithTop([f EXCEPT
                             !.pc = "return",
                             !.out = IF f.splits = <<>> THEN <<>>
                                     ELSE FinalFlush(f.out, f.current_chunk, cfg)])
           ELSE LET split == f.splits[f.i]
                    split_len == Len(split)
                    flush == /\ f.current_length + split_len > cfg.chunk_size
                             /\ f.current_chunk # <<>>
                    out1 == IF flush THEN f.out \o Flushed(f.current_chunk, cfg)
                            ELSE f.out
                    cur1 == IF flush THEN GetOverlapChunk(f.current_chunk, cfg)
                            ELSE f.current_chunk
                    len1 == IF flush THEN SumLen(cur1) ELSE f.current_length
                IN  stack' = WithTop([f EXCEPT
                                 !.out = out1,
                                 !.current_chunk = Append(cur1, split),
                                 !.current_length = len1 + split_len,
                                 !.i = f.i + 1])
    /\ UNCHANGED <<text, cfgArgs, config, chunks, cpc>>
    /\ UNCHANGED svars

\* A call returns: to chunk_document, as the splits of the caller, into
\* good_splits of the loop that made it, or through the caller's own return
FrameReturns ==
    /\ cpc = "chunking"
    /\ Top.pc = "return"
    /\ IF Len(stack) = 1
       THEN /\ stack' = <<>>
            /\ chunks' = Top.out
            /\ cpc' = "chunked"
       ELSE /\ LET p == stack[Len(stack) - 1]
                   below == SubSeq(stack, 1, Len(stack) - 2)
               IN  stack' = Append(below,
                       CASE p.pc = "tail" -> [p EXCEPT !.pc = "return", !.out = Top.out]
                         [] p.pc = "split" -> [p EXCEPT !.pc = "loop", !.splits = Top.out]
                         [] OTHER -> [p EXCEPT !.out = p.out \o Top.out,
                                               !.i = p.i + 1])
            /\ UNCHANGED <<chunks, cpc>>
    /\ UNCHANGED <<text, cfgArgs, config>>
    /\ UNCHANGED svars

\* The steps of a chunk_document call that has begun
SteppedRun ==
    \/ SplitTextRecursiveEnters \/ SplitWithSeparatorStep \/ SplitLoopStep
    \/ CharacterSplitStep \/ MergeSplitsStep \/ FrameReturns

SteppedNext == ConstructConfig \/ ChunkDocumentCalled \/ SteppedRun

(***************************************************************************)
(* HybridSearcher.  Scores are fixed-point numbers: weights and vector     *)
(* scores in thousandths, causal scores in 1/120 (every mean of up to four *)
(* partial scores 1.0 or version_count/10 is a whole number of them), and  *)
(* combined scores in 1/120000000.  Timestamps are positive integers in    *)
(* the order of the ISO strings they stand for.                            *)
(***************************************************************************)
Keys == {"k1", "k2", "k3"}

Namespace == "docs"

\* None as a timestamp (latest_timestamp of an empty history, an unset bound)
NoTime == 0

\* None as min_version_count
NoCount == -1

\* causal_filter=None
NoFilter == [none |-> TRUE]

\* 1.0 as a weight or a vector score
WeightOne == 1000

\* 0.01, the tolerance on vector_weight + causal_weight
WeightTolerance == 10

\* 1.0 as a causal score
CausalOne == 120

\* 0.5, the neutral causal score
CausalNeutral == 60

\* The request and content variables while they hold nothing
NoRequest == [none |-> TRUE]

NoContent == <<>>

\* The caller variable while search is called directly
NoCaller == [none |-> TRUE]

Abs(x) == IF x < 0 THEN -x ELSE x

\* The predicates a caller passes as custom_filter
CustomFilter(name, metadata) ==
    CASE name = "accept" -> TRUE
      [] name = "reject" -> FALSE
      [] name = "has_versions" -> metadata.version_count > 0

\* The store collaborator: similar, get and history, none of which writes
StoreSimilar(st, top_k) == Prefix(st.similar, top_k)

StoreGetFails(st, key) == st.profile[key].fetch = "get_fails"

StoreGet(st, key) == <<"value of", key>>

StoreHistoryFails(st, key) == st.profile[key].fetch = "history_fails"

StoreHistory(st, key) == st.profile[key].history

\* A search that validates only the sum of the weights
WeightError_SumOnly(a) ==
    IF Abs(a.vector_weight + a.causal_weight - WeightOne) > WeightTolerance
    THEN "ValueError: vector_weight + causal_weight must equal 1.0"
    ELSE "none"

\* search: "Validate weights"; "none", or the ValueError raised
WeightError(a) ==
    IF ~(0 <= a.vector_weight /\ a.vector_weight <= WeightOne)
    THEN "ValueError: vector_weight must be between 0.0 and 1.0"
    ELSE IF ~(0 <= a.causal_weight /\ a.causal_weight <= WeightOne)
    THEN "ValueError: causal_weight must be between 0.0 and 1.0"
    ELSE IF Abs(a.vector_weight + a.causal_weight - WeightOne) > WeightTolerance
    THEN "ValueError: vector_weight + causal_weight must equal 1.0"
    ELSE "none"

\* search, step 2: the metadata dict built from a history
Metadata(history) ==
    [history |-> history,
     version_count |-> Len(history),
     latest_timestamp |-> IF history # <<>> THEN history[Len(history)] ELSE NoTime,
     earliest_timestamp |-> IF history # <<>> THEN history[1] ELSE NoTime]

\* search, step 2: the item appended to results_with_metadata
Item(vr, value, history) ==
    [namespace |-> vr.namespace, key |-> vr.key, content |-> value,
     vector_score |-> vr.score, metadata |-> Metadata(history)]

\* A causal score that is 0, not neutral, when no criterion contributes
CalculateCausalScore_NoNeutral(metadata, f) ==
    IF f = NoFilter THEN CausalNeutral
    ELSE
      LET latest == metadata.latest_timestamp
          earliest == metadata.earliest_timestamp
          version_count == metadata.version_count
          afterApplies == f.after_timestamp # NoTime /\ latest # NoTime
          beforeApplies == f.before_timestamp # NoTime /\ earliest # NoTime
          countApplies == f.min_version_count # NoCount
          customApplies == f.custom_filter # "none"
          sum == (IF afterApplies THEN CausalOne ELSE 0)
                 + (IF beforeApplies THEN CausalOne ELSE 0)
                 + (IF countApplies THEN Min(CausalOne, 12 * version_count) ELSE 0)
                 + (IF customApplies THEN CausalOne ELSE 0)
          n == (IF afterApplies THEN 1 ELSE 0) + (IF beforeApplies THEN 1 ELSE 0)
               + (IF countApplies THEN 1 ELSE 0) + (IF customApplies THEN 1 ELSE 0)
      IN  IF afterApplies /\ latest < f.after_timestamp THEN 0
          ELSE IF beforeApplies /\ earliest > f.before_timestamp THEN 0
          ELSE IF countApplies /\ version_count < f.min_version_count THEN 0
          ELSE IF customApplies /\ ~CustomFilter(f.custom_filter, metadata) THEN 0
          ELSE IF n > 0 THEN sum \div n
          ELSE 0

\* A causal score whose timestamp bounds contribute 1.0 but eliminate nothing
CalculateCausalScore_NoTimeBounds(metadata, f) ==
    IF f = NoFilter THEN CausalNeutral
    ELSE
      LET latest == metadata.latest_timestamp
          earliest == metadata.earliest_timestamp
          version_count == metadata.version_count
          afterApplies == f.after_timestamp # NoTime /\ latest # NoTime
          beforeApplies == f.before_timestamp # NoTime /\ earliest # NoTime
          countApplies == f.min_version_count # NoCount
          customApplies == f.custom_filter # "none"
          sum == (IF afterApplies THEN CausalOne ELSE 0)
                 + (IF beforeApplies THEN CausalOne ELSE 0)
                 + (IF countApplies THEN Min(CausalOne, 12 * version_count) ELSE 0)
                 + (IF customApplies THEN CausalOne ELSE 0)
          n == (IF afterApplies THEN 1 ELSE 0) + (IF beforeApplies THEN 1 ELSE 0)
               + (IF countApplies THEN 1 ELSE 0) + (IF customApplies THEN 1 ELSE 0)
      IN  IF countApplies /\ version_count < f.min_version_count THEN 0
          ELSE IF customApplies /\ ~CustomFilter(f.custom_filter, metadata) THEN 0
          ELSE IF n > 0 THEN sum \div n
          ELSE CausalNeutral

\* A causal score that is the sum of the partial scores, not their mean
CalculateCausalScore_Sum(metadata, f) ==
    IF f = NoFilter THEN CausalNeutral
    ELSE
      LET latest == metadata.latest_timestamp
          earliest == metadata.earliest_timestamp
          version_count == metadata.version_count
          afterApplies == f.after_timestamp # NoTime /\ latest # NoTime
          beforeApplies == f.before_timestamp # NoTime /\ earliest # NoTime
          countApplies == f.min_version_count # NoCount
          customApplies == f.custom_filter # "none"
          sum == (IF afterApplies THEN CausalOne ELSE 0)
                 + (IF beforeApplies THEN CausalOne ELSE 0)
                 + (IF countApplies THEN Min(CausalOne, 12 * version_count) ELSE 0)
                 + (IF customApplies THEN CausalOne ELSE 0)
          n == (IF afterApplies THEN 1 ELSE 0) + (IF beforeApplies THEN 1 ELSE 0)
               + (IF countApplies THEN 1 ELSE 0) + (IF customApplies THEN 1 ELSE 0)
      IN  IF afterApplies /\ latest < f.after_timestamp THEN 0
          ELSE IF beforeApplies /\ earliest > f.before_timestamp THEN 0
          ELSE IF countApplies /\ version_count < f.min_version_count THEN 0
          ELSE IF customApplies /\ ~CustomFilter(f.custom_filter, metadata) THEN 0
          ELSE IF n > 0 THEN sum
          ELSE CausalNeutral

\* _calculate_causal_score
CalculateCausalScore(metadata, f) ==
    IF f = NoFilter THEN CausalNeutral
    ELSE
      LET latest == metadata.latest_timestamp
          earliest == metadata.earliest_timestamp
          version_count == metadata.version_count
          afterApplies == f.after_timestamp # NoTime /\ latest # NoTime
          beforeApplies == f.before_timestamp # NoTime /\ earliest # NoTime
          countApplies == f.min_version_count # NoCount
          customApplies == f.custom_filter # "none"
          sum == (IF afterApplies THEN CausalOne ELSE 0)
                 + (IF beforeApplies THEN CausalOne ELSE 0)
                 + (IF countApplies THEN Min(CausalOne, 12 * version_count) ELSE 0)
                 + (IF customApplies THEN CausalOne ELSE 0)
          n == (IF afterApplies THEN 1 ELSE 0) + (IF beforeApplies THEN 1 ELSE 0)
               + (IF countApplies THEN 1 ELSE 0) + (IF customApplies THEN 1 ELSE 0)
      IN  IF afterApplies /\ latest < f.after_timestamp THEN 0
          ELSE IF beforeApplies /\ earliest > f.before_timestamp THEN 0
          ELSE IF countApplies /\ version_count < f.min_version_count THEN 0
          ELSE IF customApplies /\ ~CustomFilter(f.custom_filter, metadata) THEN 0
          ELSE IF n > 0 THEN sum \div n
          ELSE CausalNeutral

\* A result whose combined score is the vector score alone
HybridResult_VectorOnly(item, a) ==
    LET causal_score == CalculateCausalScore(item.metadata, a.causal_filter)
    IN  [namespace |-> item.namespace, key |-> item.key, content |-> item.content,
         vector_score |-> item.vector_score,
         causal_score |-> causal_score,
         combined_score |-> WeightOne * item.vector_score * CausalOne,
         metadata |-> item.metadata]

\* search, step 3: the HybridSearchResult of an item that is not eliminated
HybridResult(item, a) ==
    LET causal_score == CalculateCausalScore(item.metadata, a.causal_filter)
    IN  [namespace |-> item.namespace, key |-> item.key, content |-> item.content,
         vector_score |-> item.vector_score,
         causal_score |-> causal_score,
         combined_score |-> a.vector_weight * item.vector_score * CausalOne
                            + a.causal_weight * causal_score * WeightOne,
         metadata |-> item.metadata]

\* A step 3 that scores every item and skips none
RECURSIVE HybridResults_NoElimination(_, _)
HybridResults_NoElimination(items, a) ==
    IF items = <<>> THEN <<>>
    ELSE <<HybridResult(Head(items), a)>> \o HybridResults_NoElimination(Tail(items), a)

\* search, step 3: "Apply causal filtering and scoring"
RECURSIVE HybridResults(_, _)
HybridResults(items, a) ==
    IF items = <<>> THEN <<>>
    ELSE
      LET item == Head(items)
          causal_score == CalculateCausalScore(item.metadata, a.causal_filter)
          rest == HybridResults(Tail(items), a)
      IN  IF a.causal_filter # NoFilter /\ causal_score <= 0
          THEN rest
          ELSE <<HybridResult(item, a)>> \o rest

\* list.sort(key=combined_score, reverse=True): stable, so results of equal
\* combined_score stay in the order they had
RECURSIVE InsertByScore(_, _)
InsertByScore(sorted, x) ==
    IF sorted = <<>> THEN <<x>>
    ELSE IF Head(sorted).combined_score >= x.combined_score
         THEN <<Head(sorted)>> \o InsertByScore(Tail(sorted), x)
         ELSE <<x>> \o sorted

RECURSIVE SortByCombined(_, _)
SortByCombined(rs, sorted) ==
    IF rs = <<>> THEN sorted
    ELSE SortByCombined(Tail(rs), InsertByScore(sorted, Head(rs)))

\* search, steps 3 and 4: score, filter, sort and keep the first top_k
RankAndTruncate(items, a) ==
    Prefix(SortByCombined(HybridResults(items, a), <<>>), a.top_k)


(***************************************************************************)
(* The ranker as a state machine: one search call against an unchanging    *)
(* store.  Each action runs the coroutine from one await to the next.      *)
(***************************************************************************)
\* What the store answers for one key: whether get or history fails, and
\* the timestamps of the key's versions, oldest first
Profiles ==
    { [fetch |-> "get_fails", history |-> <<>>],
      [fetch |-> "history_fails", history |-> <<>>],
      [fetch |-> "ok", history |-> <<>>],
      [fetch |-> "ok", history |-> <<2, 3>>] }

DefaultProfile == [fetch |-> "ok", history |-> <<>>]

\* Vector scores of the candidates similar reports
ScoreLists ==
    { <<>>, <<900>>, <<1000>>, <<900, 900>>, <<900, 500>>, <<500, 900>>,
      <<900, 900, 500>>, <<900, 500, 500>> }

KeyLists(n) == {ks \in [1..n -> Keys] : \A i, j \in 1..n : ks[i] = ks[j] => i = j}

SimilarLists ==
    UNION { { [i \in 1..Len(sc) |->
                 [namespace |-> Namespace, key |-> ks[i], score |-> sc[i]]]
              : ks \in KeyLists(Len(sc)) }
            : sc \in ScoreLists }

Listed(l) == {l[i].key : i \in 1..Len(l)}

\* The stores; a key similar does not report is never asked for
Stores ==
    UNION { { [similar |-> l, profile |-> p]
              : p \in {q \in [Keys -> Profiles] :
                          \A k \in Keys \ Listed(l) : q[k] = DefaultProfile} }
            : l \in SimilarLists }

EmptyStore == [similar |-> <<>>, profile |-> [k \in Keys |-> DefaultProfile]]

Filter(after, before, count, custom) ==
    [after_timestamp |-> after, before_timestamp |-> before,
     min_version_count |-> count, custom_filter |-> custom]

\* The causal filters a caller passes
Filters ==
    { NoFilter,
      Filter(NoTime, NoTime, NoCount, "none"),
      Filter(4, NoTime, NoCount, "none"),
      Filter(NoTime, 2, 0, "none"),
      Filter(NoTime, 1, NoCount, "none"),
      Filter(NoTime, NoTime, NoCount, "accept"),
      Filter(NoTime, NoTime, 3, "none"),
      Filter(3, NoTime, 2, "has_versions") }

\* Weight pairs that pass validation, and pairs that do not.  No pair has a
\* sum exactly 0.01 from 1.0: there the floating-point difference decides.
ValidWeights == { <<700, 300>>, <<1000, 0>>, <<0, 1000>>, <<504, 504>> }

InvalidWeights ==
    { <<600, 600>>, <<300, 300>>, <<1100, -100>>, <<-100, 1100>>, <<700, 1100>> }

Request(top_k, w, f) ==
    [top_k |-> top_k, vector_weight |-> w[1], causal_weight |-> w[2],
     causal_filter |-> f]

Requests ==
    { Request(k, w, f) : k \in 1..MaxTopK, w \in ValidWeights, f \in Filters }
    \cup { Request(k, w, NoFilter) : k \in 1..MaxTopK, w \in InvalidWeights }

\* A store call logged as get_at where search asks for the current value
StoreCall_GetAtForGet(op, key, n) ==
    [op |-> IF op = "get" THEN "get_at" ELSE op, key |-> key, n |-> n]

StoreCall(op, key, n) == [op |-> op, key |-> key, n |-> n]

\* The local variables of the running call, and those of a call not yet made
Frame ==
    [spc |-> spc, request |-> request, vector_results |-> vector_results,
     idx |-> idx, content |-> content,
     results_with_metadata |-> results_with_metadata, result |-> result,
     error |-> error, caller |-> caller, wpc |-> wpc, ridx |-> ridx,
     time_travel_results |-> time_travel_results, returned |-> returned]

IdleFrame ==
    [spc |-> "idle", request |-> NoRequest, vector_results |-> <<>>,
     idx |-> 0, content |-> NoContent,
     results_with_metadata |-> <<>>, result |-> <<>>,
     error |-> "none", caller |-> NoCaller, wpc |-> "idle", ridx |-> 0,
     time_travel_results |-> <<>>, returned |-> <<>>]

\* The ranker before any call, over store st
SearchIdle(st) ==
    /\ store = st
    /\ spc = "idle"
    /\ request = NoRequest
    /\ vector_results = <<>>
    /\ idx = 0
    /\ content = NoContent
    /\ results_with_metadata = <<>>
    /\ result = <<>>
    /\ error = "none"
    /\ calls = <<>>
    /\ caller = NoCaller
    /\ wpc = "idle"
    /\ ridx = 0
    /\ time_travel_results = <<>>
    /\ returned = <<>>
    /\ other = IdleFrame

\* A search that asks similar for top_k candidates only
SearchCalled_TopKOnly(r) ==
    /\ spc = "idle"
    /\ request' = r
    /\ IF WeightError(r) # "none"
       THEN /\ spc' = "error"
            /\ error' = WeightError(r)
            /\ calls' = calls
       ELSE /\ spc' = "similar"
            /\ error' = error
            /\ calls' = Append(calls, StoreCall("similar", "", r.top_k))
    /\ UNCHANGED <<store, vector_results, idx, content, results_with_metadata, result>>
    /\ UNCHANGED <<cvars, other>>

\* search up to its first await: validate the weights, then ask similar for
\* top_k * 3 candidates
SearchCalled(r) ==
    /\ spc = "idle"
    /\ request' = r
    /\ IF WeightError(r) # "none"
       THEN /\ spc' = "error"
            /\ error' = WeightError(r)
            /\ calls' = calls
       ELSE /\ spc' = "similar"
            /\ error' = error
            /\ calls' = Append(calls, StoreCall("similar", "", r.top_k * 3))
    /\ UNCHANGED <<store, vector_results, idx, content, results_with_metadata, result>>
    /\ UNCHANGED <<cvars, other>>

\* search called directly
Search ==
    /\ wpc = "idle"
    /\ \E r \in Requests : SearchCalled(r)
    /\ UNCHANGED wvars

\* The loop of step 2 after candidate idx, with items as the list built so
\* far: the next candidate's get is awaited, or steps 3 and 4 run and the
\* call returns
Continue(items) ==
    /\ results_with_metadata' = items
    /\ IF idx < Len(vector_results)
       THEN /\ idx' = idx + 1
            /\ spc' = "get"
            /\ calls' = Append(calls, StoreCall("get", vector_results[idx + 1].key, 0))
            /\ result' = result
       ELSE /\ spc' = "done"
            /\ result' = RankAndTruncate(items, request)
            /\ UNCHANGED <<idx, calls>>

\* A step 2 without the try: the store's exception leaves search
OnFetchFailure_Raise ==
    /\ spc' = "error"
    /\ error' = "StoreError"
    /\ UNCHANGED <<idx, calls, result, results_with_metadata>>

\* except Exception: continue
OnFetchFailure ==
    /\ Continue(results_with_metadata)
    /\ error' = error

\* db.similar returns
SimilarReturns ==
    /\ spc = "similar"
    /\ LET vrs == StoreSimilar(store, request.top_k * 3)
       IN  /\ vector_results' = vrs
           /\ IF vrs = <<>>
              THEN /\ spc' = "done"
                   /\ result' = <<>>
                   /\ UNCHANGED <<idx, calls>>
              ELSE /\ idx' = 1
                   /\ spc' = "get"
                   /\ calls' = Append(calls, StoreCall("get", vrs[1].key, 0))
                   /\ result' = result
    /\ UNCHANGED <<store, request, content, results_with_metadata, error>>
    /\ UNCHANGED <<cvars, wvars, other>>

\* db.get returns or raises
GetReturns ==
    /\ spc = "get"
    /\ LET key == vector_results[idx].key
       IN  IF StoreGetFails(store, key)
           THEN OnFetchFailure /\ content' = content
           ELSE /\ content' = StoreGet(store, key)
                /\ spc' = "history"
                /\ calls' = Append(calls, StoreCall("history", key, 0))
                /\ UNCHANGED <<idx, results_with_metadata, result, error>>
    /\ UNCHANGED <<store, request, vector_results>>
    /\ UNCHANGED <<cvars, wvars, other>>

\* db.history returns or raises
HistoryReturns ==
    /\ spc = "history"
    /\ LET vr == vector_results[idx]
       IN  IF StoreHistoryFails(store, vr.key)
           THEN OnFetchFailure
           ELSE /\ Continue(Append(results_with_metadata,
                                   Item(vr, content, StoreHistory(store, vr.key))))
                /\ error' = error
    /\ UNCHANGED <<store, request, vector_results, content>>
    /\ UNCHANGED <<cvars, wvars, other>>

SearchInit ==
    /\ ChunkInit
    /\ \E st \in Stores : SearchIdle(st)

SearchNext == Search \/ SimilarReturns \/ GetReturns \/ HistoryReturns

(***************************************************************************)
(* time_travel_search: a search under a before_timestamp filter with the   *)
(* weights 1.0 and 0.0, then one get_at per result.                        *)
(***************************************************************************)
\* db.get_at: the key is found from the timestamp st.since[key] on
StoreGetAtFails(st, key, timestamp) == timestamp < st.since[key]

StoreGetAt(st, key, timestamp) == <<"value of", key, "at", timestamp>>

\* The arguments of a time_travel_search call
TimeTravelCaller(top_k, timestamp) ==
    [method |-> "time_travel_search", top_k |-> top_k, timestamp |-> timestamp]

\* The search call time_travel_search makes
TimeTravelRequest(c) ==
    Request(c.top_k * 2, <<WeightOne, 0>>,
            Filter(NoTime, c.timestamp, NoCount, "none"))

\* A result that keeps the content search fetched with get
TimeTravelResult_CurrentContent(r, historical_value, timestamp) ==
    [namespace |-> r.namespace, key |-> r.key, content |-> r.content,
     vector_score |-> r.vector_score, causal_score |-> r.causal_score,
     combined_score |-> r.combined_score,
     metadata |-> [history |-> r.metadata.history,
                   version_count |-> r.metadata.version_count,
                   latest_timestamp |-> r.metadata.latest_timestamp,
                   earliest_timestamp |-> r.metadata.earliest_timestamp,
                   as_of_timestamp |-> timestamp]]

\* The result time_travel_search builds from a search result and the
\* historical value
TimeTravelResult(r, historical_value, timestamp) ==
    [namespace |-> r.namespace, key |-> r.key, content |-> historical_value,
     vector_score |-> r.vector_score, causal_score |-> r.causal_score,
     combined_score |-> r.combined_score,
     metadata |-> [history |-> r.metadata.history,
                   version_count |-> r.metadata.version_count,
                   latest_timestamp |-> r.metadata.latest_timestamp,
                   earliest_timestamp |-> r.metadata.earliest_timestamp,
                   as_of_timestamp |-> timestamp]]

\* The timestamps a caller asks for
Timestamps == {1, 2, 3}

\* time_travel_search up to the first await of the search it calls
TimeTravelCalled(c) ==
    /\ wpc = "idle"
    /\ caller' = c
    /\ SearchCalled(TimeTravelRequest(c))
    /\ wpc' = "search"
    /\ UNCHANGED <<ridx, time_travel_results, returned>>

TimeTravelSearch ==
    \E c \in {TimeTravelCaller(top_k, timestamp) :
                  top_k \in 1..MaxTopK, timestamp \in Timestamps} :
        TimeTravelCalled(c)

\* The loop over results after position ridx, with ttr as the list built so
\* far: the next result's get_at is awaited, or the first top_k are returned
TimeTravelContinue(ttr) ==
    /\ time_travel_results' = ttr
    /\ IF ridx < Len(result)
       THEN /\ ridx' = ridx + 1
            /\ wpc' = "get_at"
            /\ calls' = Append(calls, StoreCall("get_at", result[ridx + 1].key,
                                                caller.timestamp))
            /\ returned' = returned
       ELSE /\ wpc' = "done"
            /\ returned' = Prefix(ttr, caller.top_k)
            /\ UNCHANGED <<ridx, calls>>

\* The search time_travel_search awaited has returned its list
TimeTravelResumes ==
    /\ wpc = "search"
    /\ caller.method = "time_travel_search"
    /\ spc = "done"
    /\ TimeTravelContinue(<<>>)
    /\ UNCHANGED <<store, spc, request, vector_results, idx, content,
                   results_with_metadata, result, error, caller>>
    /\ UNCHANGED <<cvars, other>>

\* A loop that keeps the search result of a key get_at does not find
OnGetAtFailure_KeepCurrent ==
    /\ TimeTravelContinue(Append(time_travel_results, result[ridx]))
    /\ error' = error

\* except Exception: continue ("Key didn't exist at that time")
OnGetAtFailure ==
    /\ TimeTravelContinue(time_travel_results)
    /\ error' = error

\* db.get_at returns or raises
GetAtReturns ==
    /\ wpc = "get_at"
    /\ LET r == result[ridx]
       IN  IF StoreGetAtFails(store, r.key, caller.timestamp)
           THEN OnGetAtFailure
           ELSE /\ TimeTravelContinue(
                       Append(time_travel_results,
                              TimeTravelResult(r, StoreGetAt(store, r.key, caller.timestamp),
                                               caller.timestamp)))
                /\ error' = error
    /\ UNCHANGED <<store, spc, request, vector_results, idx, content,
                   results_with_metadata, result, caller>>
    /\ UNCHANGED <<cvars, other>>

\* The timestamps from which get_at finds a key
SinceChoices == {1, 3}

\* The stores time_travel_search is run against
TimeTravelStores ==
    UNION { { [similar |-> st.similar, profile |-> st.profile, since |-> s]
              : s \in {q \in [Keys -> SinceChoices] :
                          \A k \in Keys \ Listed(st.similar) : q[k] = 1} }
            : st \in Stores }

TimeTravelInit ==
    /\ ChunkInit
    /\ \E st \in TimeTravelStores : SearchIdle(st)

TimeTravelNext ==
    \/ TimeTravelSearch \/ SimilarReturns \/ GetReturns \/ HistoryReturns
    \/ TimeTravelResumes \/ GetAtReturns

(***************************************************************************)
(* search_with_temporal_decay: a pure vector search, then an exponential   *)
(* decay of each result by the age of its latest version.  Timestamps and  *)
(* ages are in days; a decay factor is in 1/120 like a causal score.       *)
(***************************************************************************)
\* A timestamp string datetime.fromisoformat rejects (ValueError), or one
\* without a UTC offset, whose subtraction from now raises TypeError
BadTime == -1

Parseable(timestamp_str) == timestamp_str > 0

\* math.exp raises OverflowError above 709.78: -0.693 * age_days /
\* half_life_days exceeds it for a timestamp far enough in the future
DecayOverflows(age_days, half_life_days) ==
    693 * (-age_days) > 709782 * half_life_days

\* math.exp(-0.693 * age_days / half_life_days) for an age of a whole
\* number of half-lives, rounded to 1/120: 3.9988, 1.9997, 1.0, 0.50007
\* and 0.25007
DecayFactor(age_days, half_life_days) ==
    LET half_lives == age_days \div half_life_days
    IN  CASE half_lives = -2 -> 480
          [] half_lives = -1 -> 240
          [] half_lives = 0 -> CausalOne
          [] half_lives = 1 -> 60
          [] half_lives = 2 -> 30

\* The arguments of a search_with_temporal_decay call; now is read after
\* the search has returned
DecayCaller(top_k, half_life_days) ==
    [method |-> "search_with_temporal_decay", top_k |-> top_k,
     half_life_days |-> half_life_days, now |-> NoTime]

\* The search call search_with_temporal_decay makes
DecayRequest(c) == Request(c.top_k * 2, <<WeightOne, 0>>, NoFilter)

\* The results whose decay factor cannot be computed
Overflowing(results, now, half_life_days) ==
    { i \in 1..Len(results) :
        LET timestamp_str == results[i].metadata.latest_timestamp
        IN  /\ timestamp_str # NoTime
            /\ Parseable(timestamp_str)
            /\ DecayOverflows(now - timestamp_str, half_life_days) }

\* A decay that leaves the combined score of search in place
DecayedResult_KeepCombined(r, now, half_life_days) ==
    LET timestamp_str == r.metadata.latest_timestamp
        age_days == now - timestamp_str
        decay_factor == DecayFactor(age_days, half_life_days)
    IN  IF timestamp_str = NoTime \/ ~Parseable(timestamp_str) THEN r
        ELSE [namespace |-> r.namespace, key |-> r.key, content |-> r.content,
              vector_score |-> r.vector_score,
              causal_score |-> decay_factor,
              combined_score |-> r.combined_score,
              metadata |-> [history |-> r.metadata.history,
                            version_count |-> r.metadata.version_count,
                            latest_timestamp |-> r.metadata.latest_timestamp,
                            earliest_timestamp |-> r.metadata.earliest_timestamp,
                            age_days |-> age_days,
                            decay_factor |-> decay_factor]]

\* The entry appended to decayed_results for one search result
DecayedResult(r, now, half_life_days) ==
    LET timestamp_str == r.metadata.latest_timestamp
        age_days == now - timestamp_str
        decay_factor == DecayFactor(age_days, half_life_days)
    IN  IF timestamp_str = NoTime \/ ~Parseable(timestamp_str) THEN r
        ELSE [namespace |-> r.namespace, key |-> r.key, content |-> r.content,
              vector_score |-> r.vector_score,
              causal_score |-> decay_factor,
              combined_score |-> r.vector_score * decay_factor * WeightOne,
              metadata |-> [history |-> r.metadata.history,
                            version_count |-> r.metadata.version_count,
                            latest_timestamp |-> r.metadata.latest_timestamp,
                            earliest_timestamp |-> r.metadata.earliest_timestamp,
                            age_days |-> age_days,
                            decay_factor |-> decay_factor]]

\* "Apply temporal decay", "Re-sort by adjusted scores", and the cut to top_k
DecayAndTruncate(results, now, c) ==
    Prefix(SortByCombined([i \in 1..Len(results) |->
                              DecayedResult(results[i], now, c.half_life_days)],
                          <<>>),
           c.top_k)

\* The values of datetime.now, and the half lives a caller passes
Nows == {3}

HalfLives == {1, 2}

\* search_with_temporal_decay up to the first await of the search it calls
DecayCalled(c) ==
    /\ wpc = "idle"
    /\ caller' = c
    /\ SearchCalled(DecayRequest(c))
    /\ wpc' = "search"
    /\ UNCHANGED <<ridx, time_travel_results, returned>>

SearchWithTemporalDecay ==
    \E c \in {DecayCaller(top_k, half_life_days) :
                  top_k \in 1..MaxTopK, half_life_days \in HalfLives} :
        DecayCalled(c)

\* The search search_with_temporal_decay awaited has returned its list: the
\* rest of the method runs without another await
DecayResumes ==
    /\ wpc = "search"
    /\ caller.method = "search_with_temporal_decay"
    /\ spc = "done"
    /\ \E now \in Nows :
          /\ caller' = [caller EXCEPT !.now = now]
          /\ IF Overflowing(result, now, caller.half_life_days) # {}
             THEN /\ wpc' = "error"
                  /\ error' = "OverflowError: math range error"
                  /\ returned' = returned
             ELSE /\ wpc' = "done"
                  /\ error' = error
                  /\ returned' = DecayAndTruncate(result, now, caller)
    /\ UNCHANGED <<store, spc, request, vector_results, idx, content,
                   results_with_metadata, result, calls, ridx, time_travel_results>>
    /\ UNCHANGED <<cvars, other>>

\* What the store answers for one key in the runs of
\* search_with_temporal_decay: latest versions of age 0, 2 and -2 days, a
\* timestamp that does not parse, and one beyond the range of math.exp
DecayProfiles ==
    { [fetch |-> "get_fails", history |-> <<>>],
      [fetch |-> "ok", history |-> <<>>],
      [fetch |-> "ok", history |-> <<2, 3>>],
      [fetch |-> "ok", history |-> <<1>>],
      [fetch |-> "ok", history |-> <<5>>],
      [fetch |-> "ok", history |-> <<BadTime>>],
      [fetch |-> "ok", history |-> <<5000>>] }

DecayStores ==
    UNION { { [similar |-> l, profile |-> p]
              : p \in {q \in [Keys -> DecayProfiles] :
                          \A k \in Keys \ Listed(l) : q[k] = DefaultProfile} }
            : l \in SimilarLists }

DecayInit ==
    /\ ChunkInit
    /\ \E st \in DecayStores : SearchIdle(st)

DecayNext ==
    \/ SearchWithTemporalDecay \/ SimilarReturns \/ GetReturns \/ HistoryReturns
    \/ DecayResumes

(***************************************************************************)
(* Two calls on one HybridSearcher.  A coroutine runs until it awaits the  *)
(* store; there the event loop may resume the other call.  The local       *)
(* variables of the call that is not running are kept in other; the store  *)
(* and its call log are the only things the two calls share.               *)
(***************************************************************************)
\* The call awaits the store, has not begun, or has ended
CanYield(f) ==
    \/ f.spc \in {"similar", "get", "history"}
    \/ f.wpc = "get_at"
    \/ f.wpc = "idle" /\ f.spc \in {"idle", "done", "error"}
    \/ f.wpc \in {"done", "error"}

\* An event loop that gives the resumed call the list of items the
\* suspended call has built, as if the list were a field of the searcher
Switch_SharedItems ==
    /\ CanYield(Frame)
    /\ other' = Frame
    /\ spc' = other.spc
    /\ request' = other.request
    /\ vector_results' = other.vector_results
    /\ idx' = other.idx
    /\ content' = other.content
    /\ results_with_metadata' = results_with_metadata
    /\ result' = other.result
    /\ error' = other.error
    /\ caller' = other.caller
    /\ wpc' = other.wpc
    /\ ridx' = other.ridx
    /\ time_travel_results' = other.time_travel_results
    /\ returned' = other.returned
    /\ UNCHANGED <<store, calls>>
    /\ UNCHANGED cvars

\* The event loop suspends the running call and resumes the other one
Switch ==
    /\ CanYield(Frame)
    /\ other' = Frame
    /\ spc' = other.spc
    /\ request' = other.request
    /\ vector_results' = other.vector_results
    /\ idx' = other.idx
    /\ content' = other.content
    /\ results_with_metadata' = other.results_with_metadata
    /\ result' = other.result
    /\ error' = other.error
    /\ caller' = other.caller
    /\ wpc' = other.wpc
    /\ ridx' = other.ridx
    /\ time_travel_results' = other.time_travel_results
    /\ returned' = other.returned
    /\ UNCHANGED <<store, calls>>
    /\ UNCHANGED cvars

\* The calls that are interleaved
InterleavedRequests ==
    { Request(1, <<700, 300>>, Filter(3, NoTime, 2, "has_versions")),
      Request(2, <<1000, 0>>, NoFilter),
      Request(1, <<600, 600>>, NoFilter) }

InterleavedCallers ==
    { TimeTravelCaller(1, 2), TimeTravelCaller(2, 3), DecayCaller(1, 1) }

InterleavedSearch ==
    /\ wpc = "idle"
    /\ \E r \in InterleavedRequests : SearchCalled(r)
    /\ UNCHANGED wvars

InterleavedTimeTravelSearch ==
    \E c \in InterleavedCallers :
        c.method = "time_travel_search" /\ TimeTravelCalled(c)

InterleavedSearchWithTemporalDecay ==
    \E c \in InterleavedCallers :
        c.method = "search_with_temporal_decay" /\ DecayCalled(c)

\* The stores the two calls run against
InterleavedStore(l, p, s) ==
    [similar |-> [i \in 1..Len(l) |->
                     [namespace |-> Namespace, key |-> l[i][1], score |-> l[i][2]]],
     profile |-> [k \in Keys |-> IF k = "k1" THEN p[1]
                                 ELSE IF k = "k2" THEN p[2] ELSE DefaultProfile],
     since |-> [k \in Keys |-> IF k = "k1" THEN s[1]
                               ELSE IF k = "k2" THEN s[2] ELSE 1]]

InterleavedStores ==
    { InterleavedStore(<< <<"k1", 900>> >>,
                       << [fetch |-> "ok", history |-> <<2, 3>>], DefaultProfile >>,
                       <<1, 1>>),
      InterleavedStore(<< <<"k2", 500>>, <<"k1", 900>> >>,
                       << [fetch |-> "ok", history |-> <<1>>],
                          [fetch |-> "ok", history |-> <<2, 3>>] >>,
                       <<1, 3>>),
      InterleavedStore(<< <<"k1", 900>>, <<"k2", 900>> >>,
                       << [fetch |-> "get_fails", history |-> <<>>],
                          [fetch |-> "ok", history |-> <<5>>] >>,
                       <<1, 1>>) }

InterleavedInit ==
    /\ ChunkInit
    /\ \E st \in InterleavedStores : SearchIdle(st)

InterleavedNext ==
    \/ InterleavedSearch \/ InterleavedTimeTravelSearch
    \/ InterleavedSearchWithTemporalDecay
    \/ SimilarReturns \/ GetReturns \/ HistoryReturns
    \/ TimeTravelResumes \/ GetAtReturns \/ DecayResumes
    \/ Switch

(***************************************************************************)
(* Cancellation.  asyncio raises CancelledError inside the coroutine at    *)
(* the await it is suspended on.  CancelledError derives from              *)
(* BaseException (Python 3.8 and later), so "except Exception" does not    *)
(* catch it.                                                               *)
(***************************************************************************)
\* A step 2 whose handler catches the cancellation like a failed fetch
Cancelled_Absorbed ==
    IF spc = "similar"
    THEN /\ spc' = "error"
         /\ error' = "CancelledError"
         /\ wpc' = IF wpc = "search" THEN "error" ELSE wpc
         /\ UNCHANGED <<idx, calls, result, results_with_metadata>>
    ELSE /\ OnFetchFailure
         /\ wpc' = wpc

\* CancelledError leaves search, and the method that awaited search
Cancelled ==
    /\ spc' = "error"
    /\ error' = "CancelledError"
    /\ wpc' = IF wpc = "search" THEN "error" ELSE wpc
    /\ UNCHANGED <<idx, calls, result, results_with_metadata>>

\* The running search is cancelled while it awaits similar, get or history
Cancel ==
    /\ spc \in {"similar", "get", "history"}
    /\ Cancelled
    /\ UNCHANGED <<store, request, vector_results, content, caller, ridx,
                   time_travel_results, returned, other>>
    /\ UNCHANGED cvars

CancelNext == InterleavedNext \/ Cancel

(***************************************************************************)
(* Specifications: the chunker alone, and the ranker alone.                *)
(***************************************************************************)
Init == ChunkInit /\ SearchIdle(EmptyStore)

Next == ChunkNext

Spec == Init /\ [][Next]_vars

\* chunk_document runs in one thread without awaiting anything: once called,
\* it keeps taking its next step
SteppedSpec == Init /\ [][SteppedNext]_vars /\ WF_vars(SteppedRun)

SearchSpec == SearchInit /\ [][SearchNext]_vars

TimeTravelSpec == TimeTravelInit /\ [][TimeTravelNext]_vars

DecaySpec == DecayInit /\ [][DecayNext]_vars

InterleavedSpec == InterleavedInit /\ [][InterleavedNext]_vars

CancelSpec == InterleavedInit /\ [][CancelNext]_vars


(***************************************************************************)
(* Properties of the chunker                                               *)
(***************************************************************************)
\* The configuration chunk_document works with
EffectiveConfig == IF config = NoConfig THEN Constructed(DefaultArgs) ELSE config

HasNonWhitespace(s) == \E i \in 1..Len(s) : s[i] \notin Whitespace

HasWhitespace(s) == \E i \in 1..Len(s) : s[i] \in Whitespace

Contains(s, part) == FindFirst(s, part) # 0

\* The text contains none of the non-empty separators the splitter uses
NoSeparatorOccurs(s, cfg) ==
    \A k \in 1..Len(SplitterSeparators(cfg)) :
        LET sep == SplitterSeparators(cfg)[k]
        IN  sep = <<>> \/ ~Contains(s, sep)

\* Adjacent chunks i and i+1 share m characters, m = min(chunk_overlap, the
\* length of the shorter chunk)
AdjacentOverlap(cs, i, overlap) ==
    LET m == Min(overlap, Min(Len(cs[i]), Len(cs[i + 1])))
    IN  Suffix(cs[i], m) = Prefix(cs[i + 1], m)

\* The chunks with the overlap duplicated at the head of every chunk but the
\* first removed
RemoveOverlap(cs, overlap) ==
    [i \in 1..Len(cs) |->
        IF i = 1 THEN cs[i]
        ELSE LET m == Min(overlap, Min(Len(cs[i - 1]), Len(cs[i])))
             IN  SubSeq(cs[i], m + 1, Len(cs[i]))]

\* C1: every chunk chunk_document returns is at most chunk_size long.
C1_ChunksWithinChunkSize ==
    cpc = "chunked" =>
        \A i \in 1..Len(chunks) : Len(chunks[i]) <= EffectiveConfig.chunk_size

\* C2 as stated: every non-empty text, whitespace-only texts included, yields
\* at least one chunk.
C2_NonEmptyTextHasChunk ==
    (cpc = "chunked" /\ text # <<>>) => chunks # <<>>

\* C2 amended: under keep_separator, a non-empty text yields at least one
\* chunk unless strip_whitespace is set and the text is only whitespace; in
\* that case it yields none.
C2_ContentHasChunk ==
    (cpc = "chunked" /\ text # <<>> /\ EffectiveConfig.keep_separator) =>
        IF EffectiveConfig.strip_whitespace /\ ~HasNonWhitespace(text)
        THEN chunks = <<>>
        ELSE chunks # <<>>

C2_Witness ==
    /\ cpc = "chunked"
    /\ EffectiveConfig.keep_separator /\ EffectiveConfig.strip_whitespace
    /\ Len(text) > EffectiveConfig.chunk_size
    /\ HasNonWhitespace(text) /\ HasWhitespace(text)
    /\ Len(chunks) >= 2

\* C3 as stated: a text no longer than chunk_size comes back as exactly one
\* chunk, the text itself (stripped when configured).
C3_SmallTextOneChunk ==
    (cpc = "chunked" /\ Len(text) <= EffectiveConfig.chunk_size) =>
        chunks = << IF EffectiveConfig.strip_whitespace THEN Strip(text) ELSE text >>

\* C3 amended: a text no longer than chunk_size comes back as exactly one
\* chunk, the text itself (stripped when configured), when that chunk is not
\* empty, and as no chunk when it is.
C3_SmallTextOneChunkOrNone ==
    (cpc = "chunked" /\ Len(text) <= EffectiveConfig.chunk_size) =>
        LET cleaned == IF EffectiveConfig.strip_whitespace THEN Strip(text) ELSE text
        IN  IF cleaned = <<>> THEN chunks = <<>> ELSE chunks = <<cleaned>>

C3_Witness ==
    /\ cpc = "chunked"
    /\ config # NoConfig
    /\ Len(text) = config.chunk_size
    /\ config.strip_whitespace
    /\ Strip(text) # text /\ Strip(text) # <<>>
    /\ chunks = <<Strip(text)>>

\* C4: the empty text yields the empty list under every configuration, the
\* default one included.
C4_EmptyTextNoChunks ==
    (cpc = "chunked" /\ text = <<>>) => chunks = <<>>

C4_Witness ==
    /\ cpc = "chunked"
    /\ text = <<>>
    /\ config = NoConfig
    /\ chunks = <<>>

ParagraphFragments ==
    { SubSeq(ParagraphText, 1, 14), SubSeq(ParagraphText, 17, 30),
      SubSeq(ParagraphText, 33, 48) }

C6_ParagraphScenario ==
    (cpc = "chunked" /\ text = ParagraphText /\ cfgArgs = ParagraphArgs) =>
        /\ Len(chunks) = 3
        /\ \A i \in 1..Len(chunks) :
              /\ Len(chunks[i]) <= ParagraphArgs.chunk_size
              /\ Cardinality({f \in ParagraphFragments : Contains(chunks[i], f)}) = 1

\* C7 as stated: for a text longer than chunk_size holding none of the
\* non-empty separators, adjacent chunks overlap by min(chunk_overlap, the
\* shorter chunk's length) characters.
C7_AdjacentChunksOverlap ==
    (/\ cpc = "chunked"
     /\ Len(text) > EffectiveConfig.chunk_size
     /\ NoSeparatorOccurs(text, EffectiveConfig)) =>
        \A i \in 1..(Len(chunks) - 1) :
            AdjacentOverlap(chunks, i, EffectiveConfig.chunk_overlap)

\* C7 amended: the same, when strip_whitespace is unset or the text holds no
\* whitespace (stripping removes nothing).
C7_AdjacentChunksOverlapUnstripped ==
    (/\ cpc = "chunked"
     /\ Len(text) > EffectiveConfig.chunk_size
     /\ NoSeparatorOccurs(text, EffectiveConfig)
     /\ (~EffectiveConfig.strip_whitespace \/ ~HasWhitespace(text))) =>
        \A i \in 1..(Len(chunks) - 1) :
            AdjacentOverlap(chunks, i, EffectiveConfig.chunk_overlap)

C7_Witness ==
    /\ cpc = "chunked"
    /\ Len(text) > EffectiveConfig.chunk_size
    /\ NoSeparatorOccurs(text, EffectiveConfig)
    /\ ~EffectiveConfig.strip_whitespace
    /\ HasWhitespace(text)
    /\ EffectiveConfig.chunk_overlap >= 2
    /\ Len(chunks) >= 3
    /\ \A i \in 1..(Len(chunks) - 1) :
          AdjacentOverlap(chunks, i, EffectiveConfig.chunk_overlap)

\* C8: the chunks, concatenated in order with the overlap duplication
\* removed, give back the text (checked where no character is dropped on
\* purpose: keep_separator set, strip_whitespace unset); with chunk_overlap 0
\* that is the plain concatenation.
C8_ChunksReconstructText ==
    (/\ cpc = "chunked"
     /\ EffectiveConfig.keep_separator
     /\ ~EffectiveConfig.strip_whitespace) =>
        Join(RemoveOverlap(chunks, EffectiveConfig.chunk_overlap)) = text

\* C24: every chunk is a non-empty string, and under strip_whitespace no
\* chunk begins or ends with whitespace.
C24_ChunksNonEmptyAndStripped ==
    cpc = "chunked" =>
        \A i \in 1..Len(chunks) :
            /\ chunks[i] # <<>>
            /\ EffectiveConfig.strip_whitespace => chunks[i] = Strip(chunks[i])

C24_Witness ==
    /\ cpc = "chunked"
    /\ EffectiveConfig.strip_whitespace
    /\ EffectiveConfig.separators = << <<" ">>, <<>> >>
    /\ text = <<"a", " ", " ", "a">>
    /\ EffectiveConfig.chunk_size = 2
    /\ EffectiveConfig.chunk_overlap = 0
    /\ chunks = << <<"a">>, <<"a">> >>

\* The number of non-empty separators of a configuration
RECURSIVE CountNonEmpty(_)
CountNonEmpty(separators) ==
    IF separators = <<>> THEN 0
    ELSE (IF Head(separators) # <<>> THEN 1 ELSE 0) + CountNonEmpty(Tail(separators))

C28_ChunksAreSubstrings ==
    cpc = "chunked" => \A i \in 1..Len(chunks) : Contains(text, chunks[i])

(***************************************************************************)
(* Properties of the ranker                                                *)
(***************************************************************************)
\* A weight lies outside [0, 1], or the sum is further than 0.01 from 1.0
WeightsInvalid(r) ==
    \/ r.vector_weight < 0 \/ r.vector_weight > WeightOne
    \/ r.causal_weight < 0 \/ r.causal_weight > WeightOne
    \/ r.vector_weight + r.causal_weight - WeightOne > WeightTolerance
    \/ WeightOne - (r.vector_weight + r.causal_weight) > WeightTolerance

\* The number of calls to operation op for key in a call log
CallCount(log, op, key) ==
    Cardinality({i \in 1..Len(log) : log[i].op = op /\ log[i].key = key})

\* Both get and history succeed for the key
Retrievable(st, key) == ~StoreGetFails(st, key) /\ ~StoreHistoryFails(st, key)

\* The candidates of a list whose retrieval succeeds, in the order reported
RECURSIVE RetrievableOnly(_, _)
RetrievableOnly(l, st) ==
    IF l = <<>> THEN <<>>
    ELSE IF Retrievable(st, Head(l).key)
         THEN <<Head(l)>> \o RetrievableOnly(Tail(l), st)
         ELSE RetrievableOnly(Tail(l), st)

\* What search returns when similar reports the list l and every get and
\* history succeeds
SearchAllRetrieved(l, st, a) ==
    IF l = <<>> THEN <<>>
    ELSE RankAndTruncate(
             [i \in 1..Len(l) |->
                 Item(l[i], StoreGet(st, l[i].key), StoreHistory(st, l[i].key))],
             a)

\* C9: a search with a weight outside [0, 1], or with weights whose sum is
\* further than 0.01 from 1.0, raises the ValueError before any store call
\* and returns no list.
C9_InvalidWeightsRejected ==
    (spc # "idle" /\ WeightsInvalid(request)) =>
        /\ spc = "error"
        /\ error \in { "ValueError: vector_weight must be between 0.0 and 1.0",
                       "ValueError: causal_weight must be between 0.0 and 1.0",
                       "ValueError: vector_weight + causal_weight must equal 1.0" }
        /\ calls = <<>>
        /\ results_with_metadata = <<>>
        /\ result = <<>>

C9_Witness ==
    /\ spc = "error"
    /\ request.vector_weight = 600 /\ request.causal_weight = 600
    /\ error = "ValueError: vector_weight + causal_weight must equal 1.0"
    /\ calls = <<>>

\* C10: a candidate whose get or history fails is dropped: the call raises
\* nothing for it, returns what it would return had similar not reported the
\* failing candidates, and asks get and history at most once per candidate.
C10_FailedCandidatesDropped ==
    /\ spc = "error" => (WeightsInvalid(request) /\ calls = <<>>)
    /\ spc = "done" =>
          result = SearchAllRetrieved(
                       RetrievableOnly(StoreSimilar(store, request.top_k * 3), store),
                       store, request)
    /\ \A k \in Keys :
          /\ CallCount(calls, "get", k) <= 1
          /\ CallCount(calls, "history", k) <= 1

C10_Witness ==
    /\ spc = "done"
    /\ error = "none"
    /\ \E i, j, k \in 1..Len(vector_results) :
          /\ i < j /\ j < k
          /\ StoreHistoryFails(store, vector_results[i].key)
          /\ Retrievable(store, vector_results[j].key)
          /\ StoreGetFails(store, vector_results[k].key)
          /\ CallCount(calls, "history", vector_results[i].key) = 1
          /\ CallCount(calls, "history", vector_results[k].key) = 0
          /\ Len(result) = 1
          /\ result[1].key = vector_results[j].key

\* The filter a caller builds as CausalFilter() with no field set
EmptyFilter == Filter(NoTime, NoTime, NoCount, "none")

\* The keys of a result list, and the retrieved item of a key
ResultKeys(rs) == {rs[i].key : i \in 1..Len(rs)}

\* The score similar reported for a key
ReportedScore(st, key) ==
    LET i == CHOOSE j \in 1..Len(st.similar) : st.similar[j].key = key
    IN  st.similar[i].score

\* C11: without a filter, and under a filter with no field set, the causal
\* score of every retrieved candidate is the neutral 0.5 and no candidate is
\* eliminated: the call returns min(top_k, retrieved candidates) results,
\* each with causal score 0.5.
C11_NeutralWithoutCriteria ==
    (spc = "done" /\ request.causal_filter \in {NoFilter, EmptyFilter}) =>
        /\ \A i \in 1..Len(results_with_metadata) :
              CalculateCausalScore(results_with_metadata[i].metadata,
                                   request.causal_filter) = CausalNeutral
        /\ Len(result) = Min(request.top_k, Len(results_with_metadata))
        /\ \A i \in 1..Len(result) : result[i].causal_score = CausalNeutral

C11_Witness ==
    /\ spc = "done"
    /\ request.causal_filter = EmptyFilter
    /\ Len(results_with_metadata) = 2
    /\ Len(result) = 2
    /\ \E i \in 1..2 : result[i].metadata.version_count = 2
    /\ \E i \in 1..2 : result[i].metadata.version_count = 0

\* C12: under a filter with min_version_count set, a retrieved candidate
\* with fewer versions has causal score 0 and is absent from the result,
\* whatever its vector score and the weights.
C12_TooFewVersionsExcluded ==
    (spc = "done" /\ request.causal_filter # NoFilter) =>
        \A i \in 1..Len(results_with_metadata) :
            LET item == results_with_metadata[i]
            IN  (/\ request.causal_filter.min_version_count # NoCount
                 /\ item.metadata.version_count
                        < request.causal_filter.min_version_count) =>
                    /\ CalculateCausalScore(item.metadata, request.causal_filter) = 0
                    /\ item.key \notin ResultKeys(result)

C12_Witness ==
    /\ spc = "done"
    /\ request.causal_filter = Filter(NoTime, NoTime, 3, "none")
    /\ request.top_k = 2
    /\ request.vector_weight = WeightOne
    /\ Len(results_with_metadata) = 1
    /\ results_with_metadata[1].metadata.version_count = 2
    /\ results_with_metadata[1].vector_score = WeightOne
    /\ result = <<>>

\* C13: under a filter with after_timestamp, no result has a latest
\* timestamp before it; under a filter with before_timestamp, no result has
\* an earliest timestamp after it.
C13_TimestampBoundsRespected ==
    (spc = "done" /\ request.causal_filter # NoFilter) =>
        \A i \in 1..Len(result) :
            LET m == result[i].metadata
                f == request.causal_filter
            IN  /\ (f.after_timestamp # NoTime /\ m.latest_timestamp # NoTime) =>
                       m.latest_timestamp >= f.after_timestamp
                /\ (f.before_timestamp # NoTime /\ m.earliest_timestamp # NoTime) =>
                       m.earliest_timestamp <= f.before_timestamp
                /\ m = Metadata(StoreHistory(store, result[i].key))

C13_Witness ==
    /\ spc = "done"
    /\ request.causal_filter = Filter(NoTime, 1, NoCount, "none")
    /\ request.top_k = 2
    /\ Len(results_with_metadata) = 2
    /\ \E i \in 1..2 : results_with_metadata[i].metadata.earliest_timestamp = 2
    /\ Len(result) = 1
    /\ result[1].metadata.earliest_timestamp = NoTime

\* C14: every result carries the vector score similar reported for its key,
\* the causal score of its metadata under the filter, and the combined score
\* vector_weight * vector_score + causal_weight * causal_score.
C14_CombinedScoreFormula ==
    spc = "done" =>
        \A i \in 1..Len(result) :
            LET r == result[i]
                cs == CalculateCausalScore(Metadata(StoreHistory(store, r.key)),
                                           request.causal_filter)
            IN  /\ r.vector_score = ReportedScore(store, r.key)
                /\ r.causal_score = cs
                /\ r.combined_score =
                       request.vector_weight * r.vector_score * CausalOne
                       + request.causal_weight * cs * WeightOne

C14_Witness ==
    /\ spc = "done"
    /\ request.vector_weight = 700 /\ request.causal_weight = 300
    /\ request.causal_filter = Filter(3, NoTime, 2, "has_versions")
    /\ Len(result) = 1
    /\ result[1].vector_score = 900
    /\ result[1].causal_score = 88
    /\ result[1].combined_score = 700 * 900 * CausalOne + 300 * 88 * WeightOne

\* The rank of a key in ascending key order
KeyRank(key) == CASE key = "k1" -> 1 [] key = "k2" -> 2 [] key = "k3" -> 3

\* C15: the result is the first top_k survivors by combined_score
\* descending with ties broken by key ascending: at most top_k entries,
\* non-increasing scores, equal-score entries in ascending key order, and no
\* omitted survivor scoring strictly higher than a returned one.
C15_RankedWithKeyTieBreak ==
    spc = "done" =>
        LET survivors == HybridResults(results_with_metadata, request)
        IN  /\ Len(result) <= request.top_k
            /\ \A i \in 1..Len(result) - 1 :
                  /\ result[i].combined_score >= result[i + 1].combined_score
                  /\ result[i].combined_score = result[i + 1].combined_score =>
                         KeyRank(result[i].key) < KeyRank(result[i + 1].key)
            /\ \A i \in 1..Len(survivors) :
                  survivors[i].key \notin ResultKeys(result) =>
                      /\ Len(result) = request.top_k
                      /\ \A j \in 1..Len(result) :
                            survivors[i].combined_score <= result[j].combined_score

\* C16: time_travel_search with timestamp T returns at most top_k results,
\* none for a key whose earliest history timestamp is after T and none for a
\* key get_at does not find at T.
C16_TimeTravelExcludesAbsentKeys ==
    (wpc = "done" /\ caller.method = "time_travel_search") =>
        /\ Len(returned) <= caller.top_k
        /\ \A i \in 1..Len(returned) :
              LET key == returned[i].key
                  history == StoreHistory(store, key)
              IN  /\ ~StoreGetAtFails(store, key, caller.timestamp)
                  /\ history # <<>> => history[1] <= caller.timestamp
                  /\ Retrievable(store, key)

C16_Witness ==
    /\ wpc = "done"
    /\ caller.method = "time_travel_search"
    /\ caller.timestamp = 1
    /\ Len(results_with_metadata) = 3
    /\ \E i \in 1..3 : results_with_metadata[i].metadata.earliest_timestamp = 2
    /\ Len(result) = 2
    /\ \E i \in 1..2 : StoreGetAtFails(store, result[i].key, 1)
    /\ Len(returned) = 1

\* C17: every result of time_travel_search with timestamp T carries the
\* value of get_at(namespace, key, T), not the value of get; its combined
\* score equals its vector score; the results are in non-increasing
\* vector_score order.
C17_TimeTravelHistoricalContent ==
    (wpc = "done" /\ caller.method = "time_travel_search") =>
        /\ \A i \in 1..Len(returned) :
              LET r == returned[i]
              IN  /\ r.content = StoreGetAt(store, r.key, caller.timestamp)
                  /\ r.content # StoreGet(store, r.key)
                  /\ r.vector_score = ReportedScore(store, r.key)
                  /\ r.combined_score = WeightOne * r.vector_score * CausalOne
                  /\ r.metadata.as_of_timestamp = caller.timestamp
        /\ \A i \in 1..Len(returned) - 1 :
              returned[i].vector_score >= returned[i + 1].vector_score

C17_Witness ==
    /\ wpc = "done"
    /\ caller.method = "time_travel_search"
    /\ caller.timestamp = 3
    /\ Len(vector_results) = 2
    /\ vector_results[1].score = 500 /\ vector_results[2].score = 900
    /\ Len(returned) = 2
    /\ returned[1].key = vector_results[2].key
    /\ returned[1].content = StoreGetAt(store, returned[1].key, 3)
    /\ returned[2].vector_score = 500

\* The entry of a result list for a key
ResultOf(rs, key) == rs[CHOOSE i \in 1..Len(rs) : rs[i].key = key]

\* C18: search_with_temporal_decay returns at most top_k results in
\* non-increasing order of the adjusted combined_score; a result whose
\* latest_timestamp is missing or does not parse is the result of the pure
\* vector search unchanged (combined_score = vector_score, causal_score =
\* 0.5); every other result has causal_score = decay and combined_score =
\* vector_score * decay.
C18_DecayAdjustsAndRanks ==
    (wpc = "done" /\ caller.method = "search_with_temporal_decay") =>
        /\ Len(returned) <= caller.top_k
        /\ \A i \in 1..Len(returned) - 1 :
              returned[i].combined_score >= returned[i + 1].combined_score
        /\ \A i \in 1..Len(returned) :
              LET r == returned[i]
                  latest == Metadata(StoreHistory(store, r.key)).latest_timestamp
                  decay == DecayFactor(caller.now - latest, caller.half_life_days)
              IN  /\ r.vector_score = ReportedScore(store, r.key)
                  /\ IF latest = NoTime \/ ~Parseable(latest)
                     THEN /\ r = ResultOf(result, r.key)
                          /\ r.combined_score = WeightOne * r.vector_score * CausalOne
                          /\ r.causal_score = CausalNeutral
                     ELSE /\ r.causal_score = decay
                          /\ r.combined_score = r.vector_score * decay * WeightOne

C18_Witness ==
    /\ wpc = "done"
    /\ caller.method = "search_with_temporal_decay"
    /\ caller.top_k = 2
    /\ Len(result) = 3
    /\ Len(returned) = 2
    /\ returned[1].vector_score < returned[2].vector_score
    /\ returned[1].metadata.latest_timestamp = BadTime
    /\ returned[2].causal_score = 60
    /\ returned[1].key = result[3].key

\* The three scores of a result lie in [0, 1]
ScoresInUnitInterval(r) ==
    /\ 0 <= r.vector_score /\ r.vector_score <= WeightOne
    /\ 0 <= r.causal_score /\ r.causal_score <= CausalOne
    /\ 0 <= r.combined_score
    /\ r.combined_score <= WeightOne * WeightOne * CausalOne

\* C19: with vector scores in [0, 1] and weights that passed validation,
\* every result of search, time_travel_search and
\* search_with_temporal_decay has vector_score, causal_score and
\* combined_score in [0, 1].
C19_ScoresWithinUnitInterval ==
    /\ spc = "done" => \A i \in 1..Len(result) : ScoresInUnitInterval(result[i])
    /\ wpc = "done" => \A i \in 1..Len(returned) : ScoresInUnitInterval(returned[i])

\* What search returns for request r when it is the only call on store st
SearchAlone(st, r) ==
    SearchAllRetrieved(RetrievableOnly(StoreSimilar(st, r.top_k * 3), st), st, r)

\* The results get_at finds at the timestamp, with the historical value
RECURSIVE HistoricalOnly(_, _, _)
HistoricalOnly(rs, st, timestamp) ==
    IF rs = <<>> THEN <<>>
    ELSE IF StoreGetAtFails(st, Head(rs).key, timestamp)
         THEN HistoricalOnly(Tail(rs), st, timestamp)
         ELSE <<TimeTravelResult(Head(rs), StoreGetAt(st, Head(rs).key, timestamp),
                                 timestamp)>>
              \o HistoricalOnly(Tail(rs), st, timestamp)

\* What time_travel_search and search_with_temporal_decay return alone
TimeTravelAlone(st, c) ==
    Prefix(HistoricalOnly(SearchAlone(st, TimeTravelRequest(c)), st, c.timestamp),
           c.top_k)

DecayAlone(st, c) == DecayAndTruncate(SearchAlone(st, DecayRequest(c)), c.now, c)

\* A call with local variables f has ended as it ends alone on store st
EndsAsAlone(f, st) ==
    /\ (f.wpc = "idle" /\ f.spc = "done") =>
           /\ f.result = SearchAlone(st, f.request)
           /\ f.error = "none"
    /\ (f.wpc = "idle" /\ f.spc = "error") =>
           /\ f.error = WeightError(f.request)
           /\ f.error # "none"
    /\ (f.wpc = "done" /\ f.caller.method = "time_travel_search") =>
           f.returned = TimeTravelAlone(st, f.caller)
    /\ (f.wpc = "done" /\ f.caller.method = "search_with_temporal_decay") =>
           f.returned = DecayAlone(st, f.caller)
    /\ f.wpc = "error" =>
           /\ f.caller.method = "search_with_temporal_decay"
           /\ Overflowing(SearchAlone(st, DecayRequest(f.caller)), f.caller.now,
                          f.caller.half_life_days) # {}

\* A call alone ends as the reference says
AloneEndsAsAlone == other = IdleFrame => EndsAsAlone(Frame, store)

\* C20: two search / time_travel_search / search_with_temporal_decay calls
\* on one HybridSearcher, interleaved at their awaits against an unchanging
\* store, each end with exactly the result the call has when run alone, and
\* no step changes the searcher's store reference.
C20_InterleavedCallsIndependent ==
    /\ [](EndsAsAlone(Frame, store) /\ EndsAsAlone(other, store))
    /\ [][store' = store]_vars

\* Both calls have ended with different non-empty lists, after the second
\* was started while the first awaited similar, and each awaited its first
\* get while the other did
C20_Witness ==
    /\ wpc = "done" /\ caller.method = "time_travel_search"
    /\ other.wpc = "idle" /\ other.spc = "done"
    /\ Len(returned) = 1
    /\ Len(other.result) = 2
    /\ returned[1].key = other.result[1].key
    /\ returned[1].content # other.result[1].content
    /\ Len(calls) > 4
    /\ calls[1].op = "similar" /\ calls[2].op = "similar"
    /\ calls[3].op = "get" /\ calls[4].op = "get"

\* Some criterion of the filter eliminates a candidate with this metadata
Eliminated(m, f) ==
    \/ f.after_timestamp # NoTime /\ m.latest_timestamp # NoTime
          /\ m.latest_timestamp < f.after_timestamp
    \/ f.before_timestamp # NoTime /\ m.earliest_timestamp # NoTime
          /\ m.earliest_timestamp > f.before_timestamp
    \/ f.min_version_count # NoCount /\ m.version_count < f.min_version_count
    \/ f.custom_filter # "none" /\ ~CustomFilter(f.custom_filter, m)

\* The partial scores the criteria that applied contribute, in 1/120
PartialScores(m, f) ==
    (IF f.after_timestamp # NoTime /\ m.latest_timestamp # NoTime
     THEN <<CausalOne>> ELSE <<>>)
    \o (IF f.before_timestamp # NoTime /\ m.earliest_timestamp # NoTime
        THEN <<CausalOne>> ELSE <<>>)
    \o (IF f.min_version_count # NoCount
        THEN <<Min(CausalOne, (CausalOne * m.version_count) \div 10)>> ELSE <<>>)
    \o (IF f.custom_filter # "none" THEN <<CausalOne>> ELSE <<>>)

RECURSIVE SumSeq(_)
SumSeq(xs) == IF xs = <<>> THEN 0 ELSE Head(xs) + SumSeq(Tail(xs))

\* C25: for a candidate no criterion eliminates, the causal score is the
\* arithmetic mean of the partial scores of the criteria that applied (1.0
\* per satisfied timestamp bound, min(1.0, version_count / 10) for
\* min_version_count, 1.0 for a custom_filter that returns true), and the
\* neutral 0.5 when no criterion contributed a partial score.
C25_CausalScoreIsMean ==
    (spc = "done" /\ request.causal_filter # NoFilter) =>
        \A i \in 1..Len(results_with_metadata) :
            LET m == results_with_metadata[i].metadata
                f == request.causal_filter
                parts == PartialScores(m, f)
            IN  ~Eliminated(m, f) =>
                    IF parts = <<>>
                    THEN CalculateCausalScore(m, f) = CausalNeutral
                    ELSE /\ CalculateCausalScore(m, f) * Len(parts) = SumSeq(parts)
                         /\ \A j \in 1..Len(result) :
                               result[j].key = results_with_metadata[i].key =>
                                   result[j].causal_score * Len(parts) = SumSeq(parts)

C25_Witness ==
    /\ spc = "done"
    /\ request.causal_filter = Filter(NoTime, 2, 0, "none")
    /\ Len(result) = 1
    /\ result[1].metadata.version_count = 2
    /\ PartialScores(result[1].metadata, request.causal_filter) = <<CausalOne, 24>>
    /\ result[1].causal_score = 72

\* The store calls one search issues for the candidates similar reported
RECURSIVE CandidateCalls(_, _)
CandidateCalls(vrs, st) ==
    IF vrs = <<>> THEN <<>>
    ELSE <<StoreCall("get", Head(vrs).key, 0)>>
         \o (IF StoreGetFails(st, Head(vrs).key) THEN <<>>
             ELSE <<StoreCall("history", Head(vrs).key, 0)>>)
         \o CandidateCalls(Tail(vrs), st)

ExpectedCalls(st, r) ==
    <<StoreCall("similar", "", r.top_k * 3)>>
    \o CandidateCalls(StoreSimilar(st, r.top_k * 3), st)

\* C26: one search issues exactly one similar request for top_k * 3
\* candidates, before any other call, then for each reported candidate in
\* reported order one get and, only if that get succeeded, one history;
\* when similar reports nothing no get or history is issued and the result
\* is empty.
C26_StoreCallSequence ==
    (spc \in {"similar", "get", "history", "done"}) =>
        LET expected == ExpectedCalls(store, request)
        IN  /\ Len(calls) <= Len(expected)
            /\ calls = Prefix(expected, Len(calls))
            /\ spc = "done" => calls = expected
            /\ (spc = "done" /\ StoreSimilar(store, request.top_k * 3) = <<>>) =>
                   (Len(calls) = 1 /\ result = <<>>)

C26_Witness ==
    /\ spc = "done"
    /\ Len(vector_results) = 3
    /\ StoreGetFails(store, vector_results[1].key)
    /\ StoreHistoryFails(store, vector_results[2].key)
    /\ Len(calls) = 6
    /\ calls[1] = StoreCall("similar", "", 6)
    /\ calls[3].op = "get" /\ calls[4].op = "history"
    /\ calls[6] = StoreCall("history", vector_results[3].key, 0)

\* C29: under a filter, search drops a retrieved candidate only if some
\* criterion eliminated it: a candidate that satisfies every set criterion
\* is in the result, or the result is full and it scores no higher than
\* any entry, even when its graded causal score is 0.
C29_DroppedOnlyIfEliminated ==
    (spc = "done" /\ request.causal_filter # NoFilter) =>
        \A i \in 1..Len(results_with_metadata) :
            LET item == results_with_metadata[i]
            IN  ~Eliminated(item.metadata, request.causal_filter) =>
                    \/ item.key \in ResultKeys(result)
                    \/ /\ Len(result) = request.top_k
                       /\ \A j \in 1..Len(result) :
                             HybridResult(item, request).combined_score
                                 <= result[j].combined_score

\* C30: time_travel_search with timestamp T returns every key similar
\* reports whose get_at at T succeeds and whose earliest history timestamp
\* is not after T, up to the top_k limit, whether or not the key's current
\* get succeeds.
C30_TimeTravelReturnsExistingKeys ==
    (wpc = "done" /\ caller.method = "time_travel_search") =>
        LET reported == StoreSimilar(store, caller.top_k * 2 * 3)
        IN  \A i \in 1..Len(reported) :
                LET key == reported[i].key
                    history == StoreHistory(store, key)
                IN  (/\ ~StoreGetAtFails(store, key, caller.timestamp)
                     /\ history # <<>> => history[1] <= caller.timestamp) =>
                        \/ key \in ResultKeys(returned)
                        \/ Len(returned) = caller.top_k

\* A call with local variables f was cancelled and ended with nothing, or
\* ended as it ends alone
CancelledOrAlone(f, st) ==
    /\ f.error = "CancelledError" =>
           /\ f.spc = "error"
           /\ f.wpc \in {"idle", "error"}
           /\ f.result = <<>>
           /\ f.returned = <<>>
    /\ f.error # "CancelledError" => EndsAsAlone(f, st)
    /\ f.spc = "done" => f.result = SearchAlone(st, f.request)

\* C21: a search cancelled while it awaits similar, get or history ends
\* with CancelledError and no result; the per-item handler does not absorb
\* the cancellation, so no call returns a list built from part of the
\* candidates, and a call made afterwards on the same searcher ends as it
\* ends alone.
C21_CancellationEndsCall ==
    /\ CancelledOrAlone(Frame, store)
    /\ CancelledOrAlone(other, store)

\* A search was cancelled at its second candidate, with the first already
\* retrieved; a search started afterwards has returned its full list
C21_Witness ==
    /\ other.error = "CancelledError"
    /\ other.wpc = "idle"
    /\ other.idx = 2
    /\ Len(other.results_with_metadata) = 1
    /\ other.result = <<>>
    /\ spc = "done" /\ wpc = "idle"
    /\ Len(result) = 2
    /\ Len(calls) = 9
    /\ calls[5].op = "similar"

\* The operations in a log of store calls
CalledOps(log) == {log[i].op : i \in 1..Len(log)}

\* C22: the ranker calls only similar, get, history and get_at; get_at is
\* called only when a time_travel_search is among the calls; no step of any
\* ranker call changes the store.
C22_StoreOnlyRead ==
    /\ [](/\ CalledOps(calls) \subseteq {"similar", "get", "history", "get_at"}
          /\ "get_at" \in CalledOps(calls) =>
                 \/ (caller # NoCaller /\ caller.method = "time_travel_search")
                 \/ (other.caller # NoCaller
                        /\ other.caller.method = "time_travel_search"))
    /\ [][/\ store' = store
          /\ Len(calls') >= Len(calls)
          /\ Len(calls') > Len(calls) =>
                 LET c == calls'[Len(calls')]
                 IN  IF c.op = "get_at"
                     THEN /\ spc = "done"
                          /\ caller # NoCaller
                          /\ caller.method = "time_travel_search"
                     ELSE c.op \in {"similar", "get", "history"}]_vars

C22_Witness ==
    /\ wpc = "done" /\ caller.method = "time_travel_search"
    /\ other.wpc = "done" /\ other.caller.method = "search_with_temporal_decay"
    /\ CalledOps(calls) = {"similar", "get", "history", "get_at"}
    /\ Len(returned) = 1
    /\ Len(other.returned) = 1

\* What a call that is about to return should return
ReturnsOf(f, cfg) ==
    CASE f.fn = "recursive" -> SplitTextRecursive(f.text, f.separators, cfg)
      [] f.fn = "split" -> SplitWithSeparator(f.text, Head(f.separators), cfg)
      [] f.fn = "character" -> CharacterSplit(f.text, cfg)
      [] OTHER -> MergeSplits(f.splits, Head(f.separators), cfg)

IsRecursive(f) == f.fn = "recursive"

\* The calls of _split_text_recursive on the stack, the outermost first
RecursiveCalls == SelectSeq(stack, IsRecursive)

\* C23: chunk_document terminates for every text and every accepted config:
\* a call that has begun returns, and every call on its stack returns what
\* the function computes; every iteration of the character window moves
\* start forward by chunk_size - chunk_overlap, which is at least 1; every
\* call of _split_text_recursive made from the loop receives a separator
\* list strictly shorter than its caller's, so there are never more such
\* calls on the stack than the configuration has separators.
C23_ChunkDocumentTerminates ==
    /\ (cpc = "chunking") ~> (cpc = "chunked")
    /\ [](cpc = "chunked" => stack = <<>> /\ chunks = chunk_document(text, config))
    /\ [](cpc = "chunking" =>
            /\ stack # <<>>
            /\ WindowAdvance(ConfigOrDefault(config)) >= 1
            /\ \A j \in 1..Len(stack) :
                   stack[j].pc = "return" =>
                       stack[j].out = ReturnsOf(stack[j], ConfigOrDefault(config))
            /\ Len(RecursiveCalls) <= Len(SplitterSeparators(ConfigOrDefault(config)))
            /\ Len(stack) <= Len(RecursiveCalls) + 1
            /\ \A j \in 2..Len(RecursiveCalls) :
                   Len(RecursiveCalls[j].separators)
                       < Len(RecursiveCalls[j - 1].separators))
    /\ [][cpc = "chunking" /\ cpc' = "chunking" /\ Len(stack') = Len(stack)
            /\ Top.fn = "character" /\ Top.pc = "loop" /\ Top'.pc = "loop" =>
               /\ Top'.start = Top.start + WindowAdvance(ConfigOrDefault(config))
               /\ Top'.start > Top.start
               /\ Top.start < Len(Top.text)]_vars

\* The window of a character split has advanced inside a recursive call
\* made from the loop of another
C23_Witness ==
    /\ cpc = "chunking"
    /\ Len(RecursiveCalls) >= 2
    /\ Top.fn = "character"
    /\ Top.start > 0 /\ Top.start < Len(Top.text)
    /\ Len(RecursiveCalls[2].separators) < Len(RecursiveCalls[1].separators)

=============================================================================
